---- MODULE Spec2Model ----
(***************************************************************************)
(* Key management and envelope encryption of gull-notes: the session key   *)
(* manager, vault creation and unlock, the password rotation protocol      *)
(* (changeVaultPassword), passkey (WebAuthn PRF) wrapping, and the lock    *)
(* handlers.                                                               *)
(*                                                                         *)
(* Every value that the program stores or passes around is a record with a *)
(* "kind" field, so that values of different shapes can be compared.       *)
(* AES-GCM is modelled symbolically: a ciphertext remembers the key and IV *)
(* that produced it and its plaintext, and decrypts only under that key    *)
(* and IV while its bytes are intact.  Random values (UUIDs, salts, IVs,   *)
(* key material) are drawn from the counter rnd and never repeat.          *)
(***************************************************************************)
EXTENDS Integers, Sequences, FiniteSets, Bags, TLC

VARIABLES
    stores,          \* IndexedDB: vault id -> database contents, or NoStore
    dataKey,         \* SessionKeyManager.dataKey
    keyAvailable,    \* SessionKeyManager.keyAvailable (svelte writable)
    subs,            \* subscribers of keyAvailable: the values each received
    rnd,             \* source of fresh random values
    rot,             \* the changeVaultPassword run in progress
    last,            \* outcome of the last completed API call
    made,            \* history: vault id -> Data Key generated for it
    vaultState,      \* stores/vault.ts: activeVault / activeDatabase
    inactivityState, \* stores/inactivity.ts: isMonitoring, timeoutMinutes
    checkInterval,   \* stores/inactivity.ts: checkInterval holds a timer handle
    timers,          \* interval timers that setInterval made and nobody cleared
    inactive,        \* now - lastActivity >= the timeout
    loading,         \* a getVaultSettings read is in flight for startMonitoring
    activeDb,        \* stores/notes.ts: activeDb
    page,            \* routes/+page.svelte: currentDb and authState
    calls,           \* history: the setKey / clearKey calls made so far
    changes,         \* history: every change of the availability signal
    lockSnap,        \* history: the state lockVault left when it last returned
    faults,          \* history: storage faults injected so far
    runs,            \* history: changeVaultPassword calls made so far
    authenticator,   \* credentials the platform authenticator has created
    ivLog,           \* history: bag of the (key, IV) pairs encrypted with
    probe,           \* the arguments and the result of a primitive call
    loads,           \* stores/notes.ts: the promises chained in loadingInProgress
    flight,          \* stores/notes.ts: activeDb, key and result of the load in flight
    notesWithMetadata, \* stores/notes.ts: ids of the notes the list store holds
    credOps          \* webauthn.ts: calls that have read the credential list

vars == <<stores, dataKey, keyAvailable, subs, rnd, rot, last, made,
          vaultState, inactivityState, checkInterval, timers, inactive, loading,
          activeDb, page,
          calls, changes, lockSnap, faults, runs,
          authenticator, ivLog, probe, loads, flight,
          notesWithMetadata, credOps>>

-----------------------------------------------------------------------------
(* Bounds of the model *)

MaxRnd == 2          \* random draws (vaults created, rotations, passkeys)
MaxNotes == 2        \* notes per vault
MaxVaults == 1       \* vaults made by createVault
MaxRuns == 1         \* changeVaultPassword calls that get past Verify
MaxFaults == 1       \* storage faults in one behaviour
MaxPasskeys == 2      \* credentials created by the authenticator
MaxSettingsWrites == 2  \* calls of updateVaultSettings
MaxSaves == 1         \* saves of one note by the editor
MaxPages == 2         \* full pages of notes in the paging runs
MaxCalls == 4        \* setKey / clearKey calls in the session-manager runs
MaxLoads == 3         \* loads requested through queueLoadAllNotes
MaxListed == 1        \* notes in the list of the notes store
MaxCredOps == 2       \* calls on the credential list in flight together

-----------------------------------------------------------------------------
(* Program constants *)

SALT_SIZE == 32
IV_SIZE == 12
MIN_PASSWORD_LENGTH == 8
DEFAULT_inactivityTimeout == 15
KEY_BYTES == 32
batchSize == 50
vaultSaltBytes == 16

-----------------------------------------------------------------------------
(* Values *)

Null == [kind |-> "null"]
NoStore == [kind |-> "nostore"]
EmptyBuffer == [kind |-> "buf", len |-> 0, id |-> 0]

(* crypto.getRandomValues(new Uint8Array(len)) with the draw n *)
RandomBytes(len, n) == [kind |-> "buf", len |-> len, id |-> n]

Passwords == {"Passw0rd!", "NewPass1!", "short"}
CreatePasswords == {"Passw0rd!", "short"}
VaultNames == {"V"}
Uuids == 1..(MaxRnd + 1)
VaultIds == [kind : {"vault"}, uuid : Uuids, temp : BOOLEAN]
NoteIds == 1..MaxNotes
Subscribers == {"notes", "test"}

IsNull(v) == v = Null

Ok(v) == [ok |-> TRUE, val |-> v, err |-> ""]
Err(e) == [ok |-> FALSE, val |-> Null, err |-> e]

(* The j-th random value of the operation that drew n from rnd *)
Draw(n, j) == n * (2 * (MaxNotes + 1) + 2) + j

-----------------------------------------------------------------------------
(* services/encryption.ts: validation *)

validatePasswordLax(password) ==
    IF password = "" THEN "Password must be a non-empty string" ELSE ""

validatePassword(password) ==
    IF password = "" THEN "Password must be a non-empty string"
    ELSE IF Len(password) < MIN_PASSWORD_LENGTH
         THEN "Password must be at least 8 characters"
         ELSE ""

validateBuffer(buffer, name) ==
    IF IsNull(buffer) THEN name \o " is required"
    ELSE IF buffer.kind \notin {"buf", "ct"}
         THEN name \o " must be an ArrayBuffer or Uint8Array"
         ELSE IF buffer.kind = "buf" /\ buffer.len = 0
              THEN name \o " cannot be empty"
              ELSE ""

validateEncryptionData(data) ==
    IF IsNull(data) THEN "Data to encrypt cannot be null or undefined" ELSE ""

-----------------------------------------------------------------------------
(* WebCrypto primitives *)

(* crypto.subtle.encrypt({name: 'AES-GCM', iv}, key, plaintext) *)
AesGcmEncrypt(key, iv, pt) ==
    [kind |-> "ct", key |-> key, iv |-> iv, pt |-> pt, intact |-> TRUE]

(* crypto.subtle.decrypt: the tag verifies only under the same key and IV
   and with every byte of the ciphertext as it was produced *)
AesGcmDecrypt(key, iv, ct) ==
    IF ct.kind = "ct" /\ ct.intact /\ ct.key = key /\ ct.iv = iv
    THEN Ok(ct.pt)
    ELSE Err("OperationError")

(* crypto.subtle.exportKey('raw', key) *)
exportKey(key) == [kind |-> "raw", len |-> KEY_BYTES, id |-> key.id]

(* crypto.subtle.importKey('raw', bytes, {name: 'AES-GCM', length: 256}):
   raw bytes of an AES key length are imported, any other input is a
   DataError *)
AesKeyBytes == {16, 24, KEY_BYTES}

importKey(bytes) ==
    IF bytes.kind = "raw" /\ bytes.len \in AesKeyBytes
    THEN Ok([kind |-> "dataKey", id |-> bytes.id])
    ELSE Err("DataError")

(* History: the key and the IV a ciphertext was produced with *)
used(ciphertext) ==
    SetToBag({[key |-> ciphertext.key, iv |-> ciphertext.iv]})

(* JSON.stringify drops the properties whose value is undefined *)
JSONstringify(obj) ==
    [kind |-> "json",
     text |-> [k \in {f \in DOMAIN obj : obj[f] # "undefined"} |-> obj[k]]]

(* JSON.parse(new TextDecoder().decode(bytes)) *)
JSONparse(bytes) ==
    IF bytes.kind = "json" THEN Ok(bytes.text) ELSE Err("SyntaxError")

-----------------------------------------------------------------------------
(* services/encryption.ts: keys and envelopes *)

deriveMasterKeyUnsalted(password, salt) ==
    IF validatePassword(password) # "" THEN Err(validatePassword(password))
    ELSE IF validateBuffer(salt, "salt") # ""
         THEN Err(validateBuffer(salt, "salt"))
         ELSE Ok([kind |-> "master", pw |-> password, salt |-> EmptyBuffer])

deriveMasterKey(password, salt) ==
    IF validatePassword(password) # "" THEN Err(validatePassword(password))
    ELSE IF validateBuffer(salt, "salt") # ""
         THEN Err(validateBuffer(salt, "salt"))
         ELSE Ok([kind |-> "master", pw |-> password, salt |-> salt])

generateDataKey(n) == [kind |-> "dataKey", id |-> n]

encryptDataTwoIvs(data, key, n) ==
    IF validateEncryptionData(data) # "" THEN Err(validateEncryptionData(data))
    ELSE IF IsNull(key) THEN Err("Encryption key is required")
    ELSE Ok([ciphertext |-> AesGcmEncrypt(key, RandomBytes(IV_SIZE, n),
                                          JSONstringify(data)),
             iv |-> RandomBytes(IV_SIZE, n + 1)])

encryptData(data, key, n) ==
    IF validateEncryptionData(data) # "" THEN Err(validateEncryptionData(data))
    ELSE IF IsNull(key) THEN Err("Encryption key is required")
    ELSE Ok([ciphertext |-> AesGcmEncrypt(key, RandomBytes(IV_SIZE, n),
                                          JSONstringify(data)),
             iv |-> RandomBytes(IV_SIZE, n)])

decryptDataLeaky(ciphertext, iv, key) ==
    IF IsNull(key) THEN Err("Decryption key is required")
    ELSE IF ~AesGcmDecrypt(key, iv, ciphertext).ok
         THEN AesGcmDecrypt(key, iv, ciphertext)
         ELSE JSONparse(AesGcmDecrypt(key, iv, ciphertext).val)

decryptData(ciphertext, iv, key) ==
    IF validateBuffer(ciphertext, "ciphertext") # ""
    THEN Err(validateBuffer(ciphertext, "ciphertext"))
    ELSE IF validateBuffer(iv, "iv") # "" THEN Err(validateBuffer(iv, "iv"))
    ELSE IF IsNull(key) THEN Err("Decryption key is required")
    ELSE IF ~AesGcmDecrypt(key, iv, ciphertext).ok THEN Err("Decryption failed")
    ELSE IF ~JSONparse(AesGcmDecrypt(key, iv, ciphertext).val).ok
         THEN Err("Decryption failed")
         ELSE Ok(JSONparse(AesGcmDecrypt(key, iv, ciphertext).val).val)

encryptDataKey(key, masterKey, n) ==
    IF IsNull(key) \/ IsNull(masterKey)
    THEN Err("Both dataKey and masterKey are required")
    ELSE Ok([ciphertext |-> AesGcmEncrypt(masterKey, RandomBytes(IV_SIZE, n),
                                          exportKey(key)),
             iv |-> RandomBytes(IV_SIZE, n)])

(* The import is returned without being awaited inside the try block, so a
   failed import rejects with its own error rather than the generic one. *)
decryptDataKey(encryptedKey, iv, masterKey) ==
    IF validateBuffer(encryptedKey, "encryptedKey") # ""
    THEN Err(validateBuffer(encryptedKey, "encryptedKey"))
    ELSE IF validateBuffer(iv, "iv") # "" THEN Err(validateBuffer(iv, "iv"))
    ELSE IF IsNull(masterKey) THEN Err("Master key is required")
    ELSE IF ~AesGcmDecrypt(masterKey, iv, encryptedKey).ok
         THEN Err("Failed to decrypt data key")
         ELSE importKey(AesGcmDecrypt(masterKey, iv, encryptedKey).val)

-----------------------------------------------------------------------------
(* db.ts: the two tables of a vault database.  A settings record is held by
   its 'data'; a missing record is Null. *)

EmptySettings ==
    [encrypted_data_key |-> Null, vault_metadata |-> Null, folders |-> Null,
     webauthn_credentials |-> Null, vault_settings |-> Null]

EmptyDb == [kind |-> "db", settings |-> EmptySettings, notes |-> << >>]

Exists(st, vaultId) == st[vaultId] # NoStore

(* Dexie creates the database on the first write to it *)
Opened(st, vaultId) == IF Exists(st, vaultId) THEN st[vaultId] ELSE EmptyDb

settingsGet(st, vaultId, id) ==
    IF Exists(st, vaultId) THEN st[vaultId].settings[id] ELSE Null

settingsPut(st, vaultId, id, data) ==
    [st EXCEPT ![vaultId] = [Opened(st, vaultId) EXCEPT !.settings[id] = data]]

notesOf(st, vaultId) == IF Exists(st, vaultId) THEN st[vaultId].notes ELSE << >>

notesCount(st, vaultId) == Cardinality(DOMAIN notesOf(st, vaultId))

(* notes.add: the primary key must be new *)
notesAddOk(st, vaultId, note) == note.id \notin DOMAIN notesOf(st, vaultId)

notesAdd(st, vaultId, note) ==
    [st EXCEPT ![vaultId] =
        [Opened(st, vaultId) EXCEPT
            !.notes = [i \in DOMAIN notesOf(st, vaultId) \cup {note.id} |->
                          IF i = note.id THEN note ELSE notesOf(st, vaultId)[i]]]]

(* The i-th smallest element of a set of integers, i from 1 *)
RECURSIVE Sorted(_)
Sorted(S) ==
    IF S = {} THEN << >>
    ELSE LET m == CHOOSE x \in S : \A y \in S : x <= y
         IN <<m>> \o Sorted(S \ {m})

(* notes.offset(o).limit(l).toArray(): by primary key *)
notesPageShort(st, vaultId, o, l) ==
    LET ids == Sorted(DOMAIN notesOf(st, vaultId))
    IN [i \in 1..(IF Len(ids) - o > l - 1 THEN l - 1
                  ELSE IF Len(ids) - o > 0 THEN Len(ids) - o ELSE 0) |->
           notesOf(st, vaultId)[ids[o + i]]]

notesPage(st, vaultId, o, l) ==
    LET ids == Sorted(DOMAIN notesOf(st, vaultId))
    IN [i \in 1..(IF Len(ids) - o > l THEN l
                  ELSE IF Len(ids) - o > 0 THEN Len(ids) - o ELSE 0) |->
           notesOf(st, vaultId)[ids[o + i]]]

(* indexedDB.deleteDatabase *)
deleteDatabase(st, vaultId) == [st EXCEPT ![vaultId] = NoStore]

-----------------------------------------------------------------------------
(* services/encryption.ts: SessionKeyManager *)

(* svelte writable.set: subscribers run only when the value changes *)
writableSet(value) ==
    /\ keyAvailable' = value
    /\ subs' = [s \in Subscribers |->
                   IF subs[s].on /\ value # keyAvailable
                   THEN [subs[s] EXCEPT !.got = Append(@, value)]
                   ELSE subs[s]]

setKeySilent(key) ==
    /\ dataKey' = key
    /\ UNCHANGED <<keyAvailable, subs>>

setKey(key) ==
    /\ dataKey' = key
    /\ writableSet(TRUE)

clearKeyKeepsSignal ==
    /\ dataKey' = Null
    /\ UNCHANGED <<keyAvailable, subs>>

clearKey ==
    /\ dataKey' = Null
    /\ writableSet(FALSE)

getKey == dataKey

hasKey == dataKey # Null

sessionVars == <<dataKey, keyAvailable, subs>>

storeEncryptedDataKeySwapped(st, vaultId, encryptedKey, iv, salt) ==
    settingsPut(st, vaultId, "encrypted_data_key",
                [kind |-> "keyrec", encryptedKey |-> encryptedKey,
                 keyIv |-> salt, salt |-> iv])

storeEncryptedDataKey(st, vaultId, encryptedKey, iv, salt) ==
    settingsPut(st, vaultId, "encrypted_data_key",
                [kind |-> "keyrec", encryptedKey |-> encryptedKey,
                 keyIv |-> iv, salt |-> salt])

retrieveEncryptedDataKey(st, vaultId) ==
    settingsGet(st, vaultId, "encrypted_data_key")

-----------------------------------------------------------------------------
(* services/vaults.ts *)

getVaultMetadata(st, vaultId) == settingsGet(st, vaultId, "vault_metadata")

(* deleteVault: a vault that does not exist is left alone; the delete request
   of an existing one succeeds or fails (request.onerror) *)
deleteVault(st, vaultId, fails) ==
    IF ~Exists(st, vaultId) \/ fails THEN st ELSE deleteDatabase(st, vaultId)

deleteVaultRejects(st, vaultId, fails) == Exists(st, vaultId) /\ fails

(* createVault with the draw n: the identifier, the Data Key, and the store *)
createVaultId(n) == [kind |-> "vault", uuid |-> n, temp |-> FALSE]

createVaultSalt(n) == RandomBytes(vaultSaltBytes, Draw(n, 0))

createVaultKeyTwice(password, n) ==
    IF ~deriveMasterKey(password, createVaultSalt(n)).ok
    THEN deriveMasterKey(password, createVaultSalt(n))
    ELSE Ok(generateDataKey(Draw(n, 1)))

createVaultKey(password, n) ==
    IF ~deriveMasterKey(password, createVaultSalt(n)).ok
    THEN deriveMasterKey(password, createVaultSalt(n))
    ELSE Ok(generateDataKey(Draw(n, 0)))

createVaultStores(st, vaultName, password, n) ==
    LET masterKey == deriveMasterKey(password, createVaultSalt(n)).val
        wrapped == encryptDataKey(generateDataKey(Draw(n, 0)), masterKey,
                                  Draw(n, 0)).val
        withMeta == settingsPut(st, createVaultId(n), "vault_metadata",
                                [kind |-> "vmeta", name |-> vaultName,
                                 createdAt |-> n])
    IN storeEncryptedDataKey(withMeta, createVaultId(n), wrapped.ciphertext,
                             wrapped.iv, createVaultSalt(n))

(* openVault: the Data Key it unwraps, or the error it throws *)
openVaultResultRaw(st, vaultId, password) ==
    LET keyData == retrieveEncryptedDataKey(st, vaultId)
    IN IF IsNull(keyData) THEN Err("Vault data key not found")
       ELSE LET masterKey == deriveMasterKey(password, keyData.salt)
            IN IF ~masterKey.ok THEN masterKey
               ELSE decryptDataKey(keyData.encryptedKey, keyData.keyIv,
                                   masterKey.val)

openVaultResult(st, vaultId, password) ==
    LET keyData == retrieveEncryptedDataKey(st, vaultId)
    IN IF IsNull(keyData) THEN Err("Vault data key not found")
       ELSE LET masterKey == deriveMasterKey(password, keyData.salt)
            IN IF ~masterKey.ok THEN masterKey
               ELSE IF decryptDataKey(keyData.encryptedKey, keyData.keyIv,
                                      masterKey.val).ok
                    THEN decryptDataKey(keyData.encryptedKey, keyData.keyIv,
                                        masterKey.val)
                    ELSE Err("Invalid password")

(* openVault: its effect on the session *)
openVault(vaultId, password) ==
    IF openVaultResult(stores, vaultId, password).ok
    THEN setKey(openVaultResult(stores, vaultId, password).val)
    ELSE UNCHANGED sessionVars

-----------------------------------------------------------------------------
(* The outcome of a completed call, and the rotation run *)

Outcome(op, vaultId, password, ok, err, keyBefore) ==
    [op |-> op, vaultId |-> vaultId, password |-> password, ok |-> ok,
     err |-> err, keyBefore |-> keyBefore]

(* No call has just completed *)
NoOutcome == Outcome("none", Null, "", TRUE, "", Null)

NoRotation ==
    [pc |-> "idle", vaultId |-> Null, currentPassword |-> "",
     newPassword |-> "", oldDataKey |-> Null, newDataKey |-> Null,
     newVaultId |-> Null, total |-> 0, processed |-> 0, offset |-> 0,
     batch |-> << >>, error |-> "", n |-> 0, snap |-> NoStore,
     keyBefore |-> Null, checked |-> {}, cleanupFailed |-> FALSE,
     added |-> FALSE, progress |-> << >>, sample |-> {}]

RotationOver == rot.pc = "idle"
RotationEnded == rot.pc \in {"returned", "thrown"}
RotationRunning == ~RotationOver /\ ~RotationEnded

(* throw inside the try block of changeVaultPassword *)
throwNoCleanup(error) == rot' = [rot EXCEPT !.pc = "thrown", !.error = error]

throwAndGoOn(error) == rot' = [rot EXCEPT !.pc = "commit", !.error = error]

throw(error) == rot' = [rot EXCEPT !.pc = "catch", !.error = error]

Constructed ==
    /\ stores = [v \in VaultIds |-> NoStore]
    /\ dataKey = Null
    /\ keyAvailable = FALSE
    /\ subs = [s \in Subscribers |-> [on |-> FALSE, got |-> << >>, since |-> 0]]
    /\ rnd = 0
    /\ rot = NoRotation
    /\ last = NoOutcome
    /\ made = [v \in VaultIds |-> Null]
    /\ vaultState = [activeVault |-> Null, activeDatabase |-> Null]
    /\ inactivityState = [isMonitoring |-> FALSE, timeoutMinutes |-> 0]
    /\ checkInterval = FALSE
    /\ timers = 0
    /\ inactive = FALSE
    /\ loading = Null
    /\ activeDb = Null
    /\ page = [currentDb |-> Null, authState |-> "selecting"]
    /\ calls = << >>
    /\ changes = << >>
    /\ lockSnap = Null
    /\ faults = 0
    /\ runs = 0
    /\ authenticator = 0
    /\ ivLog = EmptyBag
    /\ loads = << >>
    /\ flight = Null
    /\ notesWithMetadata = {}
    /\ credOps = << >>

Init == Constructed /\ probe = Null

uiVars == <<vaultState, inactivityState, checkInterval, timers, inactive, loading,
            activeDb, page, lockSnap>>
histVars == <<calls, changes, faults, runs>>

-----------------------------------------------------------------------------
(* Calls of the vault API *)

CreateVault(vaultName, password) ==
    /\ RotationOver
    /\ rnd < MaxRnd
    /\ Cardinality({v \in VaultIds : ~v.temp /\ ~IsNull(made[v])}) < MaxVaults
    /\ IF createVaultKey(password, rnd + 1).ok
       THEN /\ stores' = createVaultStores(stores, vaultName, password, rnd + 1)
            /\ setKey(createVaultKey(password, rnd + 1).val)
            /\ made' = [made EXCEPT ![createVaultId(rnd + 1)] =
                            createVaultKey(password, rnd + 1).val]
            /\ rnd' = rnd + 1
            /\ ivLog' = ivLog (+) used(retrieveEncryptedDataKey(stores',
                                  createVaultId(rnd + 1)).encryptedKey)
            /\ last' = Outcome("createVault", createVaultId(rnd + 1), password,
                               TRUE, "", dataKey)
       ELSE /\ last' = Outcome("createVault", Null, password, FALSE,
                               createVaultKey(password, rnd + 1).err, dataKey)
            /\ UNCHANGED <<stores, sessionVars, made, rnd, ivLog>>
    /\ UNCHANGED <<rot, uiVars, authenticator, probe, loads, flight, notesWithMetadata, credOps, histVars>>

OpenVault(vaultId, password) ==
    /\ RotationOver
    /\ Exists(stores, vaultId)
    /\ openVault(vaultId, password)
    /\ last' = Outcome("openVault", vaultId, password,
                       openVaultResult(stores, vaultId, password).ok,
                       openVaultResult(stores, vaultId, password).err, dataKey)
    /\ UNCHANGED <<stores, rnd, rot, made, uiVars, authenticator, probe, loads, flight, notesWithMetadata, credOps, ivLog, histVars>>

-----------------------------------------------------------------------------
(* services/vaults.ts: changeVaultPassword, one step per group of awaits *)

(* Phase 1: the old Data Key, or the error thrown *)
verifyCurrentRaw(st, vaultId, currentPassword) ==
    LET oldKeyData == retrieveEncryptedDataKey(st, vaultId)
    IN IF IsNull(oldKeyData) THEN Err("Vault data key not found")
       ELSE LET oldMasterKey == deriveMasterKey(currentPassword, oldKeyData.salt)
            IN IF ~oldMasterKey.ok THEN oldMasterKey
               ELSE IF ~decryptDataKey(oldKeyData.encryptedKey, oldKeyData.keyIv,
                                       oldMasterKey.val).ok
                    THEN decryptDataKey(oldKeyData.encryptedKey, oldKeyData.keyIv,
                                        oldMasterKey.val)
                    ELSE IF IsNull(getVaultMetadata(st, vaultId))
                         THEN Err("Vault metadata not found")
                         ELSE decryptDataKey(oldKeyData.encryptedKey,
                                             oldKeyData.keyIv, oldMasterKey.val)

verifyCurrent(st, vaultId, currentPassword) ==
    LET oldKeyData == retrieveEncryptedDataKey(st, vaultId)
    IN IF IsNull(oldKeyData) THEN Err("Vault data key not found")
       ELSE LET oldMasterKey == deriveMasterKey(currentPassword, oldKeyData.salt)
            IN IF ~oldMasterKey.ok THEN oldMasterKey
               ELSE IF ~decryptDataKey(oldKeyData.encryptedKey, oldKeyData.keyIv,
                                       oldMasterKey.val).ok
                    THEN Err("Current password is incorrect")
                    ELSE IF IsNull(getVaultMetadata(st, vaultId))
                         THEN Err("Vault metadata not found")
                         ELSE decryptDataKey(oldKeyData.encryptedKey,
                                             oldKeyData.keyIv, oldMasterKey.val)

ChangeVaultPassword(vaultId, currentPassword, newPassword) ==
    /\ RotationOver
    /\ rnd < MaxRnd
    /\ Exists(stores, vaultId)
    /\ runs < MaxRuns
    /\ runs' = IF verifyCurrent(stores, vaultId, currentPassword).ok
               THEN runs + 1 ELSE runs
    /\ LET r == verifyCurrent(stores, vaultId, currentPassword)
       IN rot' = [NoRotation EXCEPT
                     !.pc = IF r.ok THEN "phase2" ELSE "catch",
                     !.error = r.err,
                     !.oldDataKey = r.val,
                     !.vaultId = vaultId,
                     !.currentPassword = currentPassword,
                     !.newPassword = newPassword,
                     !.n = rnd + 1,
                     !.snap = stores[vaultId],
                     !.keyBefore = dataKey]
    /\ last' = NoOutcome
    /\ UNCHANGED <<stores, sessionVars, rnd, made, uiVars, authenticator, probe, loads, flight, notesWithMetadata, credOps, ivLog, calls, changes,
                   faults>>

(* Phase 2 *)
tempVaultId(n) == [kind |-> "vault", uuid |-> n, temp |-> TRUE]

newSalt(n) == RandomBytes(vaultSaltBytes, Draw(n, 0))

provisionStores(st, vaultId, newPassword, n) ==
    LET newMasterKey == deriveMasterKey(newPassword, newSalt(n)).val
        wrapped == encryptDataKey(generateDataKey(Draw(n, 0)), newMasterKey,
                                  Draw(n, 0)).val
        withKey == storeEncryptedDataKey(st, tempVaultId(n), wrapped.ciphertext,
                                         wrapped.iv, newSalt(n))
        metadata == getVaultMetadata(st, vaultId)
    IN settingsPut(withKey, tempVaultId(n), "vault_metadata",
                   [kind |-> "vmeta", name |-> metadata.name,
                    createdAt |-> metadata.createdAt])

RotProvision ==
    /\ rot.pc = "phase2"
    /\ IF deriveMasterKey(rot.newPassword, newSalt(rot.n)).ok
       THEN /\ stores' = provisionStores(stores, rot.vaultId, rot.newPassword,
                                         rot.n)
            /\ made' = [made EXCEPT ![tempVaultId(rot.n)] =
                            generateDataKey(Draw(rot.n, 0))]
            /\ rot' = [rot EXCEPT !.pc = "load",
                                  !.newVaultId = tempVaultId(rot.n),
                                  !.newDataKey = generateDataKey(Draw(rot.n, 0)),
                                  !.total = notesCount(stores, rot.vaultId)]
            /\ ivLog' = ivLog (+) used(retrieveEncryptedDataKey(stores',
                                  tempVaultId(rot.n)).encryptedKey)
       ELSE /\ rot' = [rot EXCEPT
                          !.pc = "catch",
                          !.newVaultId = tempVaultId(rot.n),
                          !.error = deriveMasterKey(rot.newPassword,
                                                    newSalt(rot.n)).err]
            /\ UNCHANGED <<stores, made, ivLog>>
    /\ rnd' = rnd + 1
    /\ last' = NoOutcome
    /\ UNCHANGED <<sessionVars, uiVars, authenticator, probe, loads, flight, notesWithMetadata, credOps, histVars>>

(* Phase 3: the loop condition and the read of one page *)
RotLoadBatch ==
    /\ rot.pc = "load"
    /\ rot' = IF rot.offset < rot.total
              THEN IF Len(notesPage(stores, rot.vaultId, rot.offset, batchSize)) > 0
                   THEN [rot EXCEPT
                            !.pc = "copy",
                            !.batch = notesPage(stores, rot.vaultId, rot.offset,
                                                batchSize)]
                   ELSE [rot EXCEPT !.offset = @ + batchSize]
              ELSE [rot EXCEPT !.pc = "folders"]
    /\ UNCHANGED <<stores, sessionVars, rnd, made, uiVars, authenticator, probe, loads, flight, notesWithMetadata, credOps, ivLog, histVars>>
    /\ last' = NoOutcome

(* One note of the page: decrypt under the old key, encrypt under the new *)
migrateNoteSwapped(encryptedNote, oldDataKey, newDataKey, n) ==
    LET noteMetadata == decryptData(encryptedNote.metaCipher,
                                    encryptedNote.metaIv, oldDataKey)
        noteContent == decryptData(encryptedNote.contentCipher,
                                   encryptedNote.contentIv, oldDataKey)
    IN IF ~noteMetadata.ok THEN noteMetadata
       ELSE IF ~noteContent.ok THEN noteContent
       ELSE LET newMeta == encryptData(noteMetadata.val, newDataKey,
                                       Draw(n, 2 * encryptedNote.id)).val
                newContent == encryptData(noteMetadata.val, newDataKey,
                                          Draw(n, 2 * encryptedNote.id + 1)).val
            IN Ok([id |-> encryptedNote.id,
                   metaCipher |-> newMeta.ciphertext,
                   metaIv |-> newMeta.iv,
                   contentCipher |-> newContent.ciphertext,
                   contentIv |-> newContent.iv,
                   createdAt |-> encryptedNote.createdAt,
                   updatedAt |-> encryptedNote.updatedAt,
                   schemaVersion |-> 1])

migrateNoteTouched(encryptedNote, oldDataKey, newDataKey, n) ==
    LET noteMetadata == decryptData(encryptedNote.metaCipher,
                                    encryptedNote.metaIv, oldDataKey)
        noteContent == decryptData(encryptedNote.contentCipher,
                                   encryptedNote.contentIv, oldDataKey)
    IN IF ~noteMetadata.ok THEN noteMetadata
       ELSE IF ~noteContent.ok THEN noteContent
       ELSE LET newMeta == encryptData(noteMetadata.val, newDataKey,
                                       Draw(n, 2 * encryptedNote.id)).val
                newContent == encryptData(noteContent.val, newDataKey,
                                          Draw(n, 2 * encryptedNote.id + 1)).val
            IN Ok([id |-> encryptedNote.id,
                   metaCipher |-> newMeta.ciphertext,
                   metaIv |-> newMeta.iv,
                   contentCipher |-> newContent.ciphertext,
                   contentIv |-> newContent.iv,
                   createdAt |-> encryptedNote.createdAt,
                   updatedAt |-> encryptedNote.createdAt,
                   schemaVersion |-> 1])

migrateNote(encryptedNote, oldDataKey, newDataKey, n) ==
    LET noteMetadata == decryptData(encryptedNote.metaCipher,
                                    encryptedNote.metaIv, oldDataKey)
        noteContent == decryptData(encryptedNote.contentCipher,
                                   encryptedNote.contentIv, oldDataKey)
    IN IF ~noteMetadata.ok THEN noteMetadata
       ELSE IF ~noteContent.ok THEN noteContent
       ELSE LET newMeta == encryptData(noteMetadata.val, newDataKey,
                                       Draw(n, 2 * encryptedNote.id)).val
                newContent == encryptData(noteContent.val, newDataKey,
                                          Draw(n, 2 * encryptedNote.id + 1)).val
            IN Ok([id |-> encryptedNote.id,
                   metaCipher |-> newMeta.ciphertext,
                   metaIv |-> newMeta.iv,
                   contentCipher |-> newContent.ciphertext,
                   contentIv |-> newContent.iv,
                   createdAt |-> encryptedNote.createdAt,
                   updatedAt |-> encryptedNote.updatedAt,
                   schemaVersion |-> 1])

(* processed++; onProgress?.(processed, total): the calls received so far *)
onProgressStale(progress, processed, total) ==
    Append(progress, <<processed - 1, total>>)

onProgress(progress, processed, total) ==
    Append(progress, <<processed, total>>)

(* The store the migrated note is inserted into *)
migrateTarget(vaultId, newVaultId) == newVaultId

RotCopyNote ==
    /\ rot.pc = "copy"
    /\ LET m == migrateNote(Head(rot.batch), rot.oldDataKey, rot.newDataKey, rot.n)
           target == migrateTarget(rot.vaultId, rot.newVaultId)
       IN IF ~m.ok
          THEN throw(m.err) /\ UNCHANGED stores
          ELSE IF ~notesAddOk(stores, target, m.val)
               THEN throw("ConstraintError") /\ UNCHANGED stores
               ELSE /\ stores' = notesAdd(stores, target, m.val)
                    /\ rot' = [rot EXCEPT
                                  !.processed = @ + 1,
                                  !.progress = onProgress(@, rot.processed + 1,
                                                          rot.total),
                                  !.batch = Tail(@),
                                  !.pc = IF Len(rot.batch) = 1 THEN "load"
                                         ELSE "copy",
                                  !.offset = IF Len(rot.batch) = 1
                                             THEN @ + batchSize ELSE @]
    /\ LET m == migrateNote(Head(rot.batch), rot.oldDataKey, rot.newDataKey, rot.n)
       IN ivLog' = IF m.ok
                   THEN ivLog (+) used(m.val.metaCipher)
                              (+) used(m.val.contentCipher)
                   ELSE ivLog
    /\ UNCHANGED <<sessionVars, rnd, made, uiVars, authenticator, probe, loads, flight, notesWithMetadata, credOps, histVars>>
    /\ last' = NoOutcome


(* A copy that takes the passkey records along as they are *)
copySettingsAndCredentials(st, vaultId, newVaultId) ==
    settingsPut(IF IsNull(settingsGet(st, vaultId, "folders")) THEN st
                ELSE settingsPut(st, newVaultId, "folders",
                                 settingsGet(st, vaultId, "folders")),
                newVaultId, "webauthn_credentials",
                settingsGet(st, vaultId, "webauthn_credentials"))

(* Copy settings (folders): the one settings record the run copies *)
copySettings(st, vaultId, newVaultId) ==
    IF IsNull(settingsGet(st, vaultId, "folders")) THEN st
    ELSE settingsPut(st, newVaultId, "folders",
                     settingsGet(st, vaultId, "folders"))

(* Folder settings, then Phase 4: the note count of the new store *)
RotCopyFolders ==
    /\ rot.pc = "folders"
    /\ stores' = copySettings(stores, rot.vaultId, rot.newVaultId)
    /\ IF notesCount(stores, rot.newVaultId) # rot.total
       THEN throw("Note count mismatch")
       ELSE rot' = [rot EXCEPT !.pc = "verifyIds", !.checked = @ \cup {"count"}]
    /\ UNCHANGED <<sessionVars, rnd, made, uiVars, authenticator, probe, loads, flight, notesWithMetadata, credOps, ivLog, histVars>>
    /\ last' = NoOutcome

(* The comparison the other way round: identifiers of the new store that
   the old store lacks *)
missingIdsOfNew(st, vaultId, newVaultId) ==
    DOMAIN notesOf(st, newVaultId) \ DOMAIN notesOf(st, vaultId)

missingIds(st, vaultId, newVaultId) ==
    DOMAIN notesOf(st, vaultId) \ DOMAIN notesOf(st, newVaultId)

(* missingIds.join(', '), in the order of the old store's primary key *)
RECURSIVE join(_)
join(ids) ==
    IF ids = {} THEN ""
    ELSE LET first == CHOOSE i \in ids : \A j \in ids : i <= j
         IN IF ids = {first} THEN ToString(first)
            ELSE ToString(first) \o ", " \o join(ids \ {first})

missingIdsErrorBare(ids) ==
    "Missing " \o ToString(Cardinality(ids)) \o " note(s) in new vault! Aborting."

missingIdsError(ids) ==
    "Missing " \o ToString(Cardinality(ids)) \o " note(s) in new vault! IDs: "
        \o join(ids) \o ". Aborting."

RotVerifyIds ==
    /\ rot.pc = "verifyIds"
    /\ IF missingIds(stores, rot.vaultId, rot.newVaultId) # {}
       THEN throw(missingIdsError(missingIds(stores, rot.vaultId,
                                             rot.newVaultId)))
       ELSE rot' = [rot EXCEPT !.pc = "reopen", !.checked = @ \cup {"ids"}]
    /\ UNCHANGED <<stores, sessionVars, rnd, made, uiVars, authenticator, probe, loads, flight, notesWithMetadata, credOps, ivLog, histVars>>
    /\ last' = NoOutcome

(* const testVault = await openVault(newVaultId, newPassword) *)
RotReopen ==
    /\ rot.pc = "reopen"
    /\ openVault(rot.newVaultId, rot.newPassword)
    /\ IF ~openVaultResult(stores, rot.newVaultId, rot.newPassword).ok
       THEN throw(openVaultResult(stores, rot.newVaultId, rot.newPassword).err)
       ELSE rot' = [rot EXCEPT !.pc = "sample", !.checked = @ \cup {"reopen"}]
    /\ UNCHANGED <<stores, rnd, made, uiVars, authenticator, probe, loads, flight, notesWithMetadata, credOps, ivLog, histVars>>
    /\ last' = NoOutcome

notesToVerify(total) == IF total < 5 THEN total ELSE 5

(* A sampled note decrypts under the session key *)
sampleDecrypts(testNote, testKey) ==
    /\ decryptData(testNote.metaCipher, testNote.metaIv, testKey).ok
    /\ decryptData(testNote.contentCipher, testNote.contentIv, testKey).ok

(* The notes drawn by Math.random, with repetition: any non-empty set of at
   most notesToVerify notes of the re-opened store *)
Samples(st, newVaultId, total) ==
    {S \in SUBSET DOMAIN notesOf(st, newVaultId) :
        S # {} /\ Cardinality(S) <= notesToVerify(total)}

RotSample ==
    /\ rot.pc = "sample"
    /\ IF notesToVerify(rot.total) = 0
       THEN rot' = [rot EXCEPT !.pc = "commit", !.checked = @ \cup {"sample"}]
       ELSE IF IsNull(getKey)
            THEN throw("Session key not available after vault open")
            ELSE IF DOMAIN notesOf(stores, rot.newVaultId) = {}
                 THEN throw("TypeError")
                 ELSE \E S \in Samples(stores, rot.newVaultId, rot.total) :
                        IF \A i \in S :
                              sampleDecrypts(notesOf(stores, rot.newVaultId)[i],
                                             getKey)
                        THEN rot' = [rot EXCEPT !.pc = "commit",
                                                !.sample = S,
                                                !.checked = @ \cup {"sample"}]
                        ELSE rot' = [rot EXCEPT
                                        !.pc = "catch",
                                        !.sample = S,
                                        !.error =
                                          "Failed to decrypt note in new vault"]
    /\ UNCHANGED <<stores, sessionVars, rnd, made, uiVars, authenticator, probe, loads, flight, notesWithMetadata, credOps, ivLog, histVars>>
    /\ last' = NoOutcome

(* Phase 5: await deleteVault(vaultId); return newVaultId *)
commitTarget(vaultId, newVaultId) == vaultId

RotCommit ==
    /\ rot.pc = "commit"
    /\ \E fails \in BOOLEAN :
          /\ stores' = deleteVault(stores, commitTarget(rot.vaultId,
                                                        rot.newVaultId), fails)
          /\ IF deleteVaultRejects(stores, commitTarget(rot.vaultId,
                                                        rot.newVaultId), fails)
             THEN throw("Delete request failed")
             ELSE rot' = [rot EXCEPT !.pc = "returned"]
    /\ UNCHANGED <<sessionVars, rnd, made, uiVars, authenticator, probe, loads, flight, notesWithMetadata, credOps, ivLog, histVars>>
    /\ last' = NoOutcome

(* catch: delete the temporary vault, ignore a failure of that, re-throw *)
cleanupTargetOld(vaultId, newVaultId) == vaultId

cleanupTarget(vaultId, newVaultId) == newVaultId

(* deleteVault(newVaultId).catch(() => {}); throw error: what the call
   rejects with, given the caught error and the rejection of the cleanup *)
rethrownUncaught(error, cleanupError) ==
    IF cleanupError # "" THEN cleanupError ELSE error

rethrown(error, cleanupError) == error

RotCatch ==
    /\ rot.pc = "catch"
    /\ \E fails \in BOOLEAN :
          IF IsNull(rot.newVaultId)
          THEN /\ stores' = stores
               /\ rot' = [rot EXCEPT !.pc = "thrown"]
          ELSE /\ stores' = deleteVault(stores,
                                cleanupTarget(rot.vaultId, rot.newVaultId), fails)
               /\ rot' = [rot EXCEPT
                             !.pc = "thrown",
                             !.error = rethrown(@,
                                 IF deleteVaultRejects(stores,
                                        cleanupTarget(rot.vaultId, rot.newVaultId),
                                        fails)
                                 THEN "Delete request failed" ELSE ""),
                             !.cleanupFailed =
                                 deleteVaultRejects(stores,
                                     cleanupTarget(rot.vaultId, rot.newVaultId),
                                     fails)]
    /\ UNCHANGED <<sessionVars, rnd, made, uiVars, authenticator, probe, loads, flight, notesWithMetadata, credOps, ivLog, histVars>>
    /\ last' = NoOutcome

(* The caller receives the new identifier or the error *)
Settle ==
    /\ RotationEnded
    /\ last' = Outcome("changeVaultPassword",
                       IF rot.pc = "returned" THEN rot.newVaultId ELSE Null,
                       rot.newPassword, rot.pc = "returned", rot.error,
                       rot.keyBefore)
    /\ rot' = NoRotation
    /\ UNCHANGED <<stores, sessionVars, rnd, made, uiVars, authenticator, probe, loads, flight, notesWithMetadata, credOps, ivLog, histVars>>

-----------------------------------------------------------------------------
(* routes/+page.svelte and the note components *)

(* stores/notes.ts setActiveDatabase *)
setActiveDatabase(db) == activeDb' = db

(* handleVaultCreated / handleVaultUnlocked: the dialog hands over the
   database of the vault it has just created or opened *)
HandleVaultReady(vaultId) ==
    /\ RotationOver
    /\ last.ok /\ last.op \in {"createVault", "openVault"}
    /\ last.vaultId = vaultId
    /\ page' = [currentDb |-> vaultId, authState |-> "unlocked"]
    /\ setActiveDatabase(vaultId)
    /\ last' = NoOutcome
    /\ UNCHANGED <<stores, sessionVars, rnd, rot, made, authenticator, probe, loads, flight, notesWithMetadata, credOps, ivLog, vaultState,
                   inactivityState, checkInterval, timers, inactive, loading, lockSnap,
                   histVars>>

handleLockVault ==
    /\ setActiveDatabase(Null)
    /\ clearKey
    /\ page' = [currentDb |-> Null, authState |-> "selecting"]

HandleLockVault ==
    /\ RotationOver
    /\ page.authState = "unlocked"
    /\ handleLockVault
    /\ last' = Outcome("handleLockVault", Null, "", TRUE, "", dataKey)
    /\ UNCHANGED <<stores, rnd, rot, made, authenticator, probe, loads, flight, notesWithMetadata, credOps, ivLog, vaultState, inactivityState,
                   checkInterval, timers, inactive, loading, lockSnap, histVars>>

(* What the user writes into the note with a given identifier *)
Titles == <<"T1", "T2", "T3">>
metadataOf(id) ==
    [title |-> Titles[id], tags |-> "welcome",
     color |-> IF id = 1 THEN "undefined" ELSE "red"]
contentOf(id) == [body |-> Titles[id], attachments |-> "undefined"]

(* EmptyState.svelte createFirstNote (and the FolderTree equivalents).  The
   note's UUID is new, and so are the two IVs drawn for it; n is Date.now(),
   which no two notes share *)
newNoteOneIv(id, metadata, content, key, n) ==
    [id |-> id,
     metaCipher |-> encryptData(metadata, key, Draw(0, 2 * id)).val.ciphertext,
     metaIv |-> encryptData(metadata, key, Draw(0, 2 * id)).val.iv,
     contentCipher |->
         encryptData(content, key, Draw(0, 2 * id)).val.ciphertext,
     contentIv |-> encryptData(content, key, Draw(0, 2 * id)).val.iv,
     createdAt |-> n, updatedAt |-> n, schemaVersion |-> 1]

newNote(id, metadata, content, key, n) ==
    [id |-> id,
     metaCipher |-> encryptData(metadata, key, Draw(0, 2 * id)).val.ciphertext,
     metaIv |-> encryptData(metadata, key, Draw(0, 2 * id)).val.iv,
     contentCipher |->
         encryptData(content, key, Draw(0, 2 * id + 1)).val.ciphertext,
     contentIv |-> encryptData(content, key, Draw(0, 2 * id + 1)).val.iv,
     createdAt |-> n, updatedAt |-> n, schemaVersion |-> 1]

(* No lock keeps a note from being added while a rotation runs *)
AddNote(id, metadata, content) ==
    /\ ~IsNull(activeDb)
    /\ ~IsNull(getKey)
    /\ Exists(stores, activeDb)
    /\ notesCount(stores, activeDb) < MaxNotes
    /\ \A v \in VaultIds : id \notin DOMAIN notesOf(stores, v)
    /\ stores' = notesAdd(stores, activeDb,
                          newNote(id, metadata, content, getKey, id))
    /\ rot' = IF RotationOver THEN rot ELSE [rot EXCEPT !.added = TRUE]
    /\ ivLog' = ivLog
                 (+) used(newNote(id, metadata, content, getKey, id).metaCipher)
                 (+) used(newNote(id, metadata, content, getKey, id).contentCipher)
    /\ UNCHANGED <<sessionVars, rnd, made, uiVars, authenticator, probe, loads, flight, notesWithMetadata, credOps, histVars>>
    /\ last' = NoOutcome

(* TipTapEditor.svelte saveNote: the editor's text replaces the content, the
   metadata is re-encrypted as it was, both under IVs drawn for this save, and
   updatedAt becomes Date.now(); every other field of the record stays.  A
   text equal to the one last saved is skipped (the hash comparison). *)
Bodies == {"E1"}

SaveInterval == MaxNotes + 1

savesOf(note) == (note.updatedAt - note.createdAt) \div SaveInterval

savedNote(existingNote, metadata, html, key) ==
    LET n == MaxRnd + MaxPasskeys + 2 + savesOf(existingNote)
        contentEncrypted ==
            encryptData([body |-> html, attachments |-> "undefined"], key,
                        Draw(n, 2 * existingNote.id + 1)).val
        metaEncrypted ==
            encryptData(metadata, key, Draw(n, 2 * existingNote.id)).val
    IN [existingNote EXCEPT
           !.metaCipher = metaEncrypted.ciphertext,
           !.metaIv = metaEncrypted.iv,
           !.contentCipher = contentEncrypted.ciphertext,
           !.contentIv = contentEncrypted.iv,
           !.updatedAt = @ + SaveInterval]

(* notes.update: the record under the primary key is replaced *)
notesUpdate(st, vaultId, note) ==
    [st EXCEPT ![vaultId] =
        [Opened(st, vaultId) EXCEPT !.notes[note.id] = note]]

SaveNote(currentNoteId, html) ==
    /\ ~IsNull(activeDb)
    /\ ~IsNull(getKey)
    /\ Exists(stores, activeDb)
    /\ currentNoteId \in DOMAIN notesOf(stores, activeDb)
    /\ LET existingNote == notesOf(stores, activeDb)[currentNoteId]
           lastContent == decryptData(existingNote.contentCipher,
                                      existingNote.contentIv, getKey)
           metadata == decryptData(existingNote.metaCipher,
                                   existingNote.metaIv, getKey)
           saved == savedNote(existingNote, metadata.val, html, getKey)
       IN /\ savesOf(existingNote) < MaxSaves
          /\ lastContent.ok
          /\ lastContent.val.body # html
          /\ metadata.ok
          /\ stores' = notesUpdate(stores, activeDb, saved)
          /\ ivLog' = ivLog (+) used(saved.metaCipher)
                            (+) used(saved.contentCipher)
    /\ rot' = IF RotationOver THEN rot ELSE [rot EXCEPT !.added = TRUE]
    /\ UNCHANGED <<sessionVars, rnd, made, uiVars, authenticator, probe, loads, flight, notesWithMetadata, credOps, histVars>>
    /\ last' = NoOutcome

-----------------------------------------------------------------------------
(* services/webauthn.ts *)

getVaultCredentials(st, vaultId) ==
    IF IsNull(settingsGet(st, vaultId, "webauthn_credentials")) THEN << >>
    ELSE settingsGet(st, vaultId, "webauthn_credentials").credentials

storeVaultCredentials(st, vaultId, credentials) ==
    settingsPut(st, vaultId, "webauthn_credentials",
                [kind |-> "creds", credentials |-> credentials])

(* prfSalt = new TextEncoder().encode(vaultId): the bytes of the identifier *)
prfSaltFixed(vaultId) == [kind |-> "utf8", text |-> "Gull Notes"]

prfSalt(vaultId) == [kind |-> "utf8", text |-> vaultId]

(* The PRF extension: the authenticator's secret for the credential,
   evaluated at the salt handed to the ceremony *)
prfEval(credentialId, salt) ==
    [kind |-> "raw", len |-> KEY_BYTES, id |-> <<credentialId, salt>>]

(* An assertion with extensions.prf.eval.first = prfSalt *)
prfResult(credentialId, vaultId) == prfEval(credentialId, prfSalt(vaultId))

derivePRFKey(prfOutput) == [kind |-> "prfKey", id |-> prfOutput.id]

(* The IV drawn for the credential the authenticator created as its c-th *)
passkeyIv(c) == RandomBytes(IV_SIZE, Draw(MaxRnd + c, 0))

newCredentialOtherIv(prfOutput, key, credentialName, c) ==
    [id |-> c, name |-> credentialName, createdAt |-> c, lastUsedAt |-> c,
     encryptedDataKey |->
         AesGcmEncrypt(derivePRFKey(prfOutput), passkeyIv(c), exportKey(key)),
     dataKeyIv |-> passkeyIv(c + 1)]

newCredential(prfOutput, key, credentialName, c) ==
    [id |-> c, name |-> credentialName, createdAt |-> c, lastUsedAt |-> c,
     encryptedDataKey |->
         AesGcmEncrypt(derivePRFKey(prfOutput), passkeyIv(c), exportKey(key)),
     dataKeyIv |-> passkeyIv(c)]

CredentialNames == {"key"}

(* What the two ceremonies of a registration can answer: create() resolves to
   null; the credential carries no prf extension result; it carries
   results.first; it carries neither results nor enabled; it carries
   enabled only, and the follow-up get() resolves to null, carries no
   results.first, or carries results.first *)
Ceremonies ==
    {"cancelled", "noPrf", "direct", "disabled", "enabledCancelled",
     "enabledNoOutput", "enabledOutput"}

PrfUnavailable ==
    "This authenticator doesn't support vault encryption (PRF extension not available)"

(* prfData.results?.first, or else the authAssertion's results.first when
   prfData.enabled *)
registrationPrfDirectOnly(vaultId, c, ceremony) ==
    IF ceremony = "direct" THEN prfEval(c, prfSalt(vaultId)) ELSE Null

registrationPrf(vaultId, c, ceremony) ==
    CASE ceremony = "direct" -> prfEval(c, prfSalt(vaultId))
      [] ceremony = "enabledOutput" -> prfEval(c, prfSalt(vaultId))
      [] OTHER -> Null

registerError(ceremony, prfOutput) ==
    IF ceremony = "cancelled" THEN "Credential creation was cancelled"
    ELSE IF ceremony = "noPrf" THEN PrfUnavailable
    ELSE IF ceremony = "enabledCancelled"
         THEN "Authentication for PRF was cancelled"
    ELSE IF IsNull(prfOutput) THEN PrfUnavailable
    ELSE ""

(* registerPasskey: the authenticator has made its credential whenever
   create() resolved to one; the list is stored as the last step *)
registerPasskey(vaultId, credentialName, ceremony) ==
    /\ RotationOver
    /\ Exists(stores, vaultId)
    /\ ~IsNull(getKey)
    /\ LET c == authenticator + 1
           prfOutput == registrationPrf(vaultId, c, ceremony)
           error == registerError(ceremony, prfOutput)
       IN IF error # ""
          THEN /\ last' = Outcome("registerPasskey", vaultId, "", FALSE, error,
                                  dataKey)
               /\ authenticator' = IF ceremony = "cancelled" THEN authenticator
                                   ELSE c
               /\ UNCHANGED <<stores, ivLog>>
          ELSE /\ stores' = storeVaultCredentials(stores, vaultId,
                                Append(getVaultCredentials(stores, vaultId),
                                       newCredential(prfOutput, getKey,
                                                     credentialName, c)))
               /\ authenticator' = c
               /\ ivLog' = ivLog (+) used(newCredential(prfOutput, getKey,
                                              credentialName, c).encryptedDataKey)
               /\ last' = Outcome("registerPasskey", vaultId, "", TRUE, "",
                                  dataKey)
    /\ UNCHANGED <<sessionVars, rnd, rot, made, uiVars, histVars, probe, loads, flight, notesWithMetadata, credOps>>

RegisterPasskey(vaultId, credentialName, ceremony) ==
    /\ authenticator < MaxPasskeys
    /\ registerPasskey(vaultId, credentialName, ceremony)

(* The credential record whose id the assertion carries *)
usedCredential(credentials, usedCredId) ==
    IF \E i \in DOMAIN credentials : credentials[i].id = usedCredId
    THEN credentials[CHOOSE i \in DOMAIN credentials :
                         credentials[i].id = usedCredId]
    ELSE Null

(* unlockWithPasskey up to the import of the Data Key *)
unlockResult(st, vaultId, usedCredId, prf) ==
    LET credentials == getVaultCredentials(st, vaultId)
    IN IF Len(credentials) = 0
       THEN Err("No passkeys registered for this vault")
       ELSE IF usedCredId = 0 THEN Err("Authentication was cancelled")
       ELSE IF IsNull(usedCredential(credentials, usedCredId))
            THEN Err("Unknown credential used")
       ELSE IF ~prf THEN Err("PRF extension failed")
       ELSE LET c == usedCredential(credentials, usedCredId)
                prfKey == derivePRFKey(prfResult(usedCredId, vaultId))
            IN IF ~AesGcmDecrypt(prfKey, c.dataKeyIv, c.encryptedDataKey).ok
               THEN Err("Failed to decrypt vault key")
               ELSE importKey(AesGcmDecrypt(prfKey, c.dataKeyIv,
                                            c.encryptedDataKey).val)

(* lastUsedAt: Date.now(), a time after the credential's creation *)
touched(credentials, usedCredId) ==
    [i \in DOMAIN credentials |->
        IF credentials[i].id = usedCredId
        THEN [credentials[i] EXCEPT !.lastUsedAt = credentials[i].createdAt + 1]
        ELSE credentials[i]]

(* The authenticator offers the credentials it created; the user picks one
   (or 0: cancels).  The key is set before the list is stored; the put of
   the list is fulfilled or rejected (putFails). *)
UnlockWithPasskey(vaultId, usedCredId, prf, putFails) ==
    /\ RotationOver
    /\ Exists(stores, vaultId)
    /\ usedCredId <= authenticator
    /\ LET r == unlockResult(stores, vaultId, usedCredId, prf)
       IN /\ IF r.ok
             THEN /\ setKey(r.val)
                  /\ stores' = IF putFails THEN stores
                               ELSE storeVaultCredentials(stores, vaultId,
                                        touched(getVaultCredentials(stores,
                                                                    vaultId),
                                                usedCredId))
             ELSE UNCHANGED <<stores, sessionVars>>
          /\ last' = Outcome("unlockWithPasskey", vaultId, "",
                             r.ok /\ ~putFails,
                             IF r.ok /\ putFails THEN "AbortError" ELSE r.err,
                             dataKey)
    /\ UNCHANGED <<rnd, rot, made, uiVars, authenticator, probe, loads, flight, notesWithMetadata, credOps, ivLog, histVars>>

withoutInverted(credentials, credentialId) ==
    SelectSeq(credentials, LAMBDA c : c.id = credentialId)

without(credentials, credentialId) ==
    SelectSeq(credentials, LAMBDA c : c.id # credentialId)

RemovePasskey(vaultId, credentialId) ==
    /\ RotationOver
    /\ Exists(stores, vaultId)
    /\ stores' = storeVaultCredentials(stores, vaultId,
                     without(getVaultCredentials(stores, vaultId), credentialId))
    /\ last' = Outcome("removePasskey", vaultId, "", TRUE, "", dataKey)
    /\ UNCHANGED <<sessionVars, rnd, rot, made, uiVars, authenticator, probe, loads, flight, notesWithMetadata, credOps, ivLog,
                   histVars>>

-----------------------------------------------------------------------------
(* services/webauthn.ts with its awaits: registerPasskey, unlockWithPasskey
   and removePasskey each read the credential list first, in a transaction
   of their own, and put a list made from what they read as their last step,
   in another.  credOps holds the calls that have read and not yet put. *)

CredOpNames == {"registerPasskey", "unlockWithPasskey", "removePasskey"}

(* const credentials = await getVaultCredentials(db) *)
CredentialsRead(op, vaultId, credentialId) ==
    /\ RotationOver
    /\ Exists(stores, vaultId)
    /\ Len(credOps) < MaxCredOps
    /\ op = "registerPasskey" => ~IsNull(getKey) /\ credentialId = 0
    /\ op = "removePasskey" => credentialId > 0
    /\ credOps' = Append(credOps,
                         [op |-> op, vaultId |-> vaultId,
                          credentialId |-> credentialId, dataKey |-> getKey,
                          credentials |-> getVaultCredentials(stores, vaultId)])
    /\ last' = NoOutcome
    /\ UNCHANGED <<stores, sessionVars, rnd, rot, made, uiVars, authenticator,
                   probe, loads, flight, notesWithMetadata, ivLog, histVars>>

(* The list a call puts, made from the list it read *)
updatedCredentials(o, c, prfOutput) ==
    CASE o.op = "registerPasskey" ->
             Append(o.credentials,
                    newCredential(prfOutput, o.dataKey, "key", c))
      [] o.op = "unlockWithPasskey" -> touched(o.credentials, o.credentialId)
      [] o.op = "removePasskey" -> without(o.credentials, o.credentialId)

(* The rest of the call: the ceremony, the key, and
   await storeVaultCredentials(db, updatedCredentials) *)
CredentialsStored(i, ceremony) ==
    /\ i \in DOMAIN credOps
    /\ LET o == credOps[i]
           c == authenticator + 1
           prfOutput == registrationPrf(o.vaultId, c, ceremony)
           r == unlockResult(storeVaultCredentials(stores, o.vaultId,
                                                   o.credentials),
                             o.vaultId, o.credentialId, TRUE)
           error == CASE o.op = "registerPasskey" ->
                             registerError(ceremony, prfOutput)
                      [] o.op = "unlockWithPasskey" -> r.err
                      [] o.op = "removePasskey" -> ""
       IN /\ o.op = "registerPasskey" => authenticator < MaxPasskeys
          /\ o.op # "registerPasskey" => ceremony = "direct"
          /\ o.credentialId <= authenticator
          /\ stores' = IF error # "" THEN stores
                       ELSE storeVaultCredentials(stores, o.vaultId,
                                updatedCredentials(o, c, prfOutput))
          /\ authenticator' = IF o.op = "registerPasskey"
                                 /\ ceremony # "cancelled"
                              THEN c ELSE authenticator
          /\ ivLog' = IF o.op = "registerPasskey" /\ error = ""
                      THEN ivLog (+) used(newCredential(prfOutput, o.dataKey,
                                              "key", c).encryptedDataKey)
                      ELSE ivLog
          /\ IF o.op = "unlockWithPasskey" /\ error = ""
             THEN setKey(r.val) ELSE UNCHANGED sessionVars
          /\ last' = Outcome(o.op, o.vaultId, "", error = "", error, dataKey)
    /\ credOps' = SubSeq(credOps, 1, i - 1)
                    \o SubSeq(credOps, i + 1, Len(credOps))
    /\ UNCHANGED <<rnd, rot, made, uiVars, probe, loads, flight,
                   notesWithMetadata, histVars>>

-----------------------------------------------------------------------------
(* Storage faults: stored bytes change under the program.  While a rotation
   runs only its temporary store is hit, which is what Verify-New guards. *)

FaultAllowed(vaultId) ==
    /\ faults < MaxFaults
    /\ Exists(stores, vaultId)
    /\ RotationOver \/ (RotationRunning /\ vaultId = rot.newVaultId)

CorruptNote(vaultId, id) ==
    /\ FaultAllowed(vaultId)
    /\ id \in DOMAIN notesOf(stores, vaultId)
    /\ stores[vaultId].notes[id].metaCipher.intact
    /\ stores' = [stores EXCEPT ![vaultId].notes[id].metaCipher.intact = FALSE]
    /\ faults' = faults + 1
    /\ UNCHANGED <<sessionVars, rnd, rot, made, uiVars, authenticator, probe, loads, flight, notesWithMetadata, credOps, ivLog, calls, changes, runs>>
    /\ last' = NoOutcome

(* Bytes of the record altered in place, or the salt truncated to nothing *)
KeyRecordFaults == {"encryptedKey", "keyIv", "salt", "saltLost"}

Corrupted(keyData, field) ==
    CASE field = "encryptedKey" ->
            [keyData EXCEPT !.encryptedKey.intact = FALSE]
      [] field = "keyIv" ->
            [keyData EXCEPT !.keyIv = RandomBytes(keyData.keyIv.len, 0)]
      [] field = "salt" ->
            [keyData EXCEPT !.salt = RandomBytes(keyData.salt.len, 0)]
      [] field = "saltLost" ->
            [keyData EXCEPT !.salt = EmptyBuffer]

CorruptKeyRecord(vaultId, field) ==
    /\ FaultAllowed(vaultId)
    /\ ~IsNull(retrieveEncryptedDataKey(stores, vaultId))
    /\ Corrupted(retrieveEncryptedDataKey(stores, vaultId), field)
         # retrieveEncryptedDataKey(stores, vaultId)
    /\ stores' = settingsPut(stores, vaultId, "encrypted_data_key",
                     Corrupted(retrieveEncryptedDataKey(stores, vaultId), field))
    /\ faults' = faults + 1
    /\ UNCHANGED <<sessionVars, rnd, rot, made, uiVars, authenticator, probe, loads, flight, notesWithMetadata, credOps, ivLog, calls, changes, runs>>
    /\ last' = NoOutcome

-----------------------------------------------------------------------------

Next ==
    \/ \E name \in VaultNames, pw \in CreatePasswords : CreateVault(name, pw)
    \/ \E v \in VaultIds, pw \in Passwords : OpenVault(v, pw)
    \/ \E v \in VaultIds : HandleVaultReady(v)
    \/ \E id \in NoteIds : AddNote(id, metadataOf(id), contentOf(id))
    \/ \E v \in VaultIds, cur \in Passwords, new \in Passwords :
          ChangeVaultPassword(v, cur, new)
    \/ RotProvision
    \/ RotLoadBatch
    \/ RotCopyNote
    \/ RotCopyFolders
    \/ RotVerifyIds
    \/ RotReopen
    \/ RotSample
    \/ RotCommit
    \/ RotCatch
    \/ Settle
    \/ \E v \in VaultIds, id \in NoteIds : CorruptNote(v, id)
    \/ \E v \in VaultIds, f \in KeyRecordFaults : CorruptKeyRecord(v, f)
    \/ HandleLockVault

Spec == Init /\ [][Next]_vars

(* The awaits of a running changeVaultPassword call settle: a step of the
   call that can be taken is taken *)
RunSteps ==
    \/ RotProvision
    \/ RotLoadBatch
    \/ RotCopyNote
    \/ RotCopyFolders
    \/ RotVerifyIds
    \/ RotReopen
    \/ RotSample
    \/ RotCommit
    \/ RotCatch

SpecRun == Spec /\ WF_vars(RunSteps)

-----------------------------------------------------------------------------
(* stores/inactivity.ts, stores/vault.ts, services/vault-settings.ts.  The
   functions of the two stores run to completion; they are written as
   functions of the state they read and write. *)

initialVaultState == [activeVault |-> Null, activeDatabase |-> Null]
initialInactivity == [isMonitoring |-> FALSE, timeoutMinutes |-> 0]

Timeouts == {0, 5}

Here ==
    [dataKey |-> dataKey, vaultState |-> vaultState,
     inactivityState |-> inactivityState, checkInterval |-> checkInterval,
     timers |-> timers]

stopMonitoring(s) ==
    [s EXCEPT !.checkInterval = FALSE,
              !.timers = IF s.checkInterval THEN s.timers - 1 ELSE s.timers,
              !.inactivityState = initialInactivity]

(* startMonitoring without its stopMonitoring() *)
startMonitoringOnTop(s, timeoutMinutes) ==
    IF timeoutMinutes <= 0 THEN s
    ELSE [s EXCEPT
             !.inactivityState = [isMonitoring |-> TRUE,
                                  timeoutMinutes |-> timeoutMinutes],
             !.checkInterval = TRUE,
             !.timers = s.timers + 1]

startMonitoring(s, timeoutMinutes) ==
    IF timeoutMinutes <= 0 THEN stopMonitoring(s)
    ELSE [stopMonitoring(s) EXCEPT
             !.inactivityState = [isMonitoring |-> TRUE,
                                  timeoutMinutes |-> timeoutMinutes],
             !.checkInterval = TRUE,
             !.timers = stopMonitoring(s).timers + 1]

lockVaultKeepsKey(s) ==
    [stopMonitoring(s) EXCEPT !.vaultState = initialVaultState]

lockVault(s) ==
    [stopMonitoring(s) EXCEPT !.dataKey = Null,
                              !.vaultState = initialVaultState]

handleInactivityLock(s) == lockVault(stopMonitoring(s))

(* What lockVault has left behind when it returns *)
Left(s) ==
    [hasKey |-> ~IsNull(s.dataKey), activeVault |-> s.vaultState.activeVault,
     activeDatabase |-> s.vaultState.activeDatabase,
     isMonitoring |-> s.inactivityState.isMonitoring,
     checkInterval |-> s.checkInterval]

(* notes.ts: vaultActiveDatabase.subscribe(db => db !== activeDb &&
   setActiveDatabase(db)); the derived store stays silent from null to null *)
syncActiveDb(s) ==
    activeDb' = IF IsNull(s.vaultState.activeDatabase)
                   /\ IsNull(vaultState.activeDatabase)
                THEN activeDb
                ELSE s.vaultState.activeDatabase

(* The state s takes effect; the lock functions clear the key or leave it *)
become(s) ==
    /\ IF IsNull(s.dataKey) THEN clearKey ELSE UNCHANGED sessionVars
    /\ vaultState' = s.vaultState
    /\ inactivityState' = s.inactivityState
    /\ checkInterval' = s.checkInterval
    /\ timers' = s.timers
    /\ syncActiveDb(s)

vaultInfo(st, vaultId) ==
    [id |-> vaultId, name |-> getVaultMetadata(st, vaultId).name,
     createdAt |-> getVaultMetadata(st, vaultId).createdAt]

(* types: VaultSettings {inactivityTimeout: number}.  A number of a JSON
   text is its decimal digits. *)
VaultSettings(timeoutMinutes) == [inactivityTimeout |-> ToString(timeoutMinutes)]

minutesOf(text) ==
    CHOOSE n \in Timeouts \cup {DEFAULT_inactivityTimeout} : ToString(n) = text

(* services/vault-settings.ts *)
encryptSettings(settings, key, n) == encryptData(settings, key, n)

decryptSettings(ciphertext, iv, key) == decryptData(ciphertext, iv, key)

(* getVaultSettings once its read has completed, with the key it took when
   it was called *)
getVaultSettings(st, db, key) ==
    IF IsNull(settingsGet(st, db, "vault_settings"))
    THEN DEFAULT_inactivityTimeout
    ELSE IF ~decryptSettings(settingsGet(st, db, "vault_settings").ciphertext,
                             settingsGet(st, db, "vault_settings").iv, key).ok
         THEN DEFAULT_inactivityTimeout
         ELSE minutesOf(decryptSettings(settingsGet(st, db, "vault_settings").ciphertext,
                              settingsGet(st, db, "vault_settings").iv,
                              key).val.inactivityTimeout)

(* History: the settings encryptions made so far; each draws a new IV *)
settingsWrites ==
    Cardinality({p \in BagToSet(ivLog) :
                    /\ p.iv.id >= Draw(MaxRnd + MaxPasskeys + 1, 0)
                    /\ p.iv.id < Draw(MaxRnd + MaxPasskeys + 2, 0)})

UpdateVaultSettings(timeoutMinutes) ==
    /\ ~IsNull(vaultState.activeDatabase)
    /\ ~IsNull(getKey)
    /\ Exists(stores, vaultState.activeDatabase)
    /\ settingsWrites < MaxSettingsWrites
    /\ LET encrypted == encryptSettings(VaultSettings(timeoutMinutes), getKey,
                            Draw(MaxRnd + MaxPasskeys + 1, settingsWrites)).val
       IN /\ stores' = settingsPut(stores, vaultState.activeDatabase,
                                   "vault_settings", encrypted)
          /\ ivLog' = ivLog (+) used(encrypted.ciphertext)
    /\ rot' = IF RotationOver THEN rot ELSE [rot EXCEPT !.added = TRUE]
    /\ last' = Outcome("updateVaultSettings", vaultState.activeDatabase, "",
                       TRUE, "", dataKey)
    /\ UNCHANGED <<sessionVars, rnd, made, uiVars, authenticator, probe, loads, flight, notesWithMetadata, credOps, histVars>>

(* routes/vault/create: activateVault for the vault createVault has just
   made.  getVaultSettings takes the session key at once and reads later. *)
ActivateVault(vaultId) ==
    /\ last.op = "createVault" /\ last.ok /\ last.vaultId = vaultId
    /\ vaultState' = [activeVault |-> vaultInfo(stores, vaultId),
                      activeDatabase |-> vaultId]
    /\ activeDb' = vaultId
    /\ loading' = IF IsNull(getKey) THEN loading
                  ELSE [kind |-> "pending", db |-> vaultId, key |-> getKey]
    /\ last' = Outcome("activateVault", vaultId, "", TRUE, "", dataKey)
    /\ UNCHANGED <<stores, sessionVars, rnd, rot, made, inactivityState,
                   checkInterval, timers, inactive, page, lockSnap, authenticator, probe, loads, flight, notesWithMetadata, credOps, ivLog,
                   histVars>>

(* unlockVault up to its await of getVaultSettings *)
UnlockVault(vaultId, password) ==
    /\ Exists(stores, vaultId)
    /\ openVault(vaultId, password)
    /\ IF openVaultResult(stores, vaultId, password).ok
       THEN /\ vaultState' = [activeVault |-> vaultInfo(stores, vaultId),
                              activeDatabase |-> vaultId]
            /\ activeDb' = vaultId
            /\ loading' = [kind |-> "pending", db |-> vaultId,
                           key |-> openVaultResult(stores, vaultId,
                                                   password).val]
       ELSE UNCHANGED <<vaultState, activeDb, loading>>
    /\ last' = Outcome("unlockVault", vaultId, password,
                       openVaultResult(stores, vaultId, password).ok,
                       openVaultResult(stores, vaultId, password).err, dataKey)
    /\ UNCHANGED <<stores, rnd, rot, made, inactivityState, checkInterval, timers,
                   inactive, page, lockSnap, authenticator, probe, loads, flight, notesWithMetadata, credOps, ivLog, histVars>>

(* The settings have been read: startMonitoring(settings.inactivityTimeout) *)
SettingsLoaded ==
    /\ ~IsNull(loading)
    /\ LET s == startMonitoring(Here, getVaultSettings(stores, loading.db,
                                                       loading.key))
       IN /\ inactivityState' = s.inactivityState
          /\ checkInterval' = s.checkInterval
          /\ timers' = s.timers
    /\ inactive' = FALSE
    /\ loading' = Null
    /\ last' = NoOutcome
    /\ UNCHANGED <<stores, sessionVars, rnd, rot, made, vaultState, activeDb,
                   page, lockSnap, authenticator, probe, loads, flight, notesWithMetadata, credOps, ivLog, histVars>>

(* timeoutMinutes have gone by since lastActivity *)
TimePasses ==
    /\ inactivityState.isMonitoring
    /\ ~inactive
    /\ inactive' = TRUE
    /\ last' = NoOutcome
    /\ UNCHANGED <<stores, sessionVars, rnd, rot, made, vaultState,
                   inactivityState, checkInterval, timers, loading, activeDb, page,
                   lockSnap, authenticator, probe, loads, flight, notesWithMetadata, credOps, ivLog, histVars>>

resetActivity ==
    /\ inactive
    /\ inactive' = FALSE
    /\ last' = NoOutcome
    /\ UNCHANGED <<stores, sessionVars, rnd, rot, made, vaultState,
                   inactivityState, checkInterval, timers, loading, activeDb, page,
                   lockSnap, authenticator, probe, loads, flight, notesWithMetadata, credOps, ivLog, histVars>>

(* The setInterval callback.  It runs inside inactivityState.update, whose
   callback returns the state object it was given: what stopMonitoring set
   meanwhile is overwritten by that object. *)
CheckTick ==
    /\ timers > 0
    /\ IF inactivityState.isMonitoring /\ inactivityState.timeoutMinutes > 0
          /\ inactive
       THEN /\ become([handleInactivityLock(Here) EXCEPT
                          !.inactivityState = inactivityState])
            /\ lockSnap' = Left(handleInactivityLock(Here))
            /\ last' = Outcome("handleInactivityLock", vaultState.activeDatabase,
                               "", TRUE, "", dataKey)
       ELSE /\ last' = NoOutcome
            /\ UNCHANGED <<sessionVars, vaultState, inactivityState,
                           checkInterval, timers, activeDb, lockSnap>>
    /\ UNCHANGED <<stores, rnd, rot, made, inactive, loading, page,
                   authenticator, probe, loads, flight, notesWithMetadata, credOps, ivLog, histVars>>

(* TitleBar handleLock and the lock buttons of the vault pages *)
LockVault ==
    /\ become(lockVault(Here))
    /\ lockSnap' = Left(lockVault(Here))
    /\ last' = Outcome("lockVault", vaultState.activeDatabase, "", TRUE, "",
                       dataKey)
    /\ UNCHANGED <<stores, rnd, rot, made, inactive, loading, page,
                   authenticator, probe, loads, flight, notesWithMetadata, credOps, ivLog, histVars>>

(* window 'beforeunload' *)
BeforeUnload ==
    /\ clearKey
    /\ last' = Outcome("beforeunload", Null, "", TRUE, "", dataKey)
    /\ UNCHANGED <<stores, rnd, rot, made, uiVars, authenticator, probe, loads, flight, notesWithMetadata, credOps, ivLog, histVars>>

NextLock ==
    \/ \E name \in VaultNames, pw \in CreatePasswords : CreateVault(name, pw)
    \/ \E v \in VaultIds, pw \in Passwords : OpenVault(v, pw)
    \/ \E v \in VaultIds : HandleVaultReady(v)
    \/ HandleLockVault
    \/ \E v \in VaultIds : ActivateVault(v)
    \/ \E v \in VaultIds, pw \in Passwords : UnlockVault(v, pw)
    \/ \E t \in Timeouts : UpdateVaultSettings(t)
    \/ SettingsLoaded
    \/ TimePasses
    \/ resetActivity
    \/ CheckTick
    \/ LockVault
    \/ BeforeUnload

SpecLock == Init /\ [][NextLock]_vars

(* setInterval: a scheduled timer fires every CHECK_INTERVAL_MS *)
SpecAutoLock == SpecLock /\ WF_vars(CheckTick)

-----------------------------------------------------------------------------
(* The Session Key Manager on its own: setKey, clearKey and the subscribers
   of keyAvailable *)

SessionKeys == {generateDataKey(1), generateDataKey(2)}

(* History: the availability after a call, appended when the call changed it *)
noteChange(available) ==
    changes' = IF available # hasKey THEN Append(changes, available)
               ELSE changes

SetKey(key) ==
    /\ Len(calls) < MaxCalls
    /\ setKey(key)
    /\ calls' = Append(calls, [op |-> "setKey", key |-> key])
    /\ noteChange(TRUE)
    /\ UNCHANGED <<stores, rnd, rot, last, made, uiVars, authenticator, probe, loads, flight, notesWithMetadata, credOps, ivLog, faults,
                   runs>>

ClearKey ==
    /\ Len(calls) < MaxCalls
    /\ clearKey
    /\ calls' = Append(calls, [op |-> "clearKey", key |-> Null])
    /\ noteChange(FALSE)
    /\ UNCHANGED <<stores, rnd, rot, last, made, uiVars, authenticator, probe, loads, flight, notesWithMetadata, credOps, ivLog, faults,
                   runs>>

(* writable.subscribe(run): run is called at once with the current value *)
Subscribe(s) ==
    /\ ~subs[s].on
    /\ subs[s].got = << >>
    /\ subs' = [subs EXCEPT ![s] = [on |-> TRUE, got |-> <<keyAvailable>>,
                                    since |-> Len(changes)]]
    /\ UNCHANGED <<stores, dataKey, keyAvailable, rnd, rot, last, made, uiVars,
                   authenticator, probe, loads, flight, notesWithMetadata, credOps, ivLog, histVars>>

(* the function subscribe returned *)
Unsubscribe(s) ==
    /\ subs[s].on
    /\ subs' = [subs EXCEPT ![s].on = FALSE]
    /\ UNCHANGED <<stores, dataKey, keyAvailable, rnd, rot, last, made, uiVars,
                   authenticator, probe, loads, flight, notesWithMetadata, credOps, ivLog, histVars>>

NextSession ==
    \/ \E k \in SessionKeys : SetKey(k)
    \/ ClearKey
    \/ \E s \in Subscribers : Subscribe(s)
    \/ \E s \in Subscribers : Unsubscribe(s)

SpecSession == Init /\ [][NextSession]_vars

(* The password and passkey operations on vaults that hold no note yet, with
   no storage fault *)
NextKeys ==
    \/ \E name \in VaultNames, pw \in CreatePasswords : CreateVault(name, pw)
    \/ \E v \in VaultIds, pw \in Passwords : OpenVault(v, pw)
    \/ \E v \in VaultIds, cur \in Passwords, new \in Passwords :
          ChangeVaultPassword(v, cur, new)
    \/ RotProvision
    \/ RotLoadBatch
    \/ RotCopyFolders
    \/ RotVerifyIds
    \/ RotReopen
    \/ RotSample
    \/ RotCommit
    \/ RotCatch
    \/ Settle
    \/ \E v \in VaultIds, name \in CredentialNames, c \in Ceremonies :
          RegisterPasskey(v, name, c)
    \/ \E v \in VaultIds, c \in 0..MaxPasskeys, prf \in BOOLEAN,
             putFails \in BOOLEAN :
          UnlockWithPasskey(v, c, prf, putFails)
    \/ \E v \in VaultIds, c \in 1..MaxPasskeys : RemovePasskey(v, c)

SpecKeys == Init /\ [][NextKeys]_vars

(* Passkeys registered, used and removed on one vault.  One credential more
   than in the other runs, so that a removal can leave two records behind *)
NextPasskeys ==
    \/ \E name \in VaultNames, pw \in CreatePasswords : CreateVault(name, pw)
    \/ \E v \in VaultIds, name \in CredentialNames,
          c \in {"direct", "enabledCancelled"} :
          authenticator < (MaxPasskeys + 1) /\ registerPasskey(v, name, c)
    \/ \E v \in VaultIds, c \in 0..(MaxPasskeys + 1) :
          UnlockWithPasskey(v, c, TRUE, FALSE)
    \/ \E v \in VaultIds, c \in 1..(MaxPasskeys + 2) : RemovePasskey(v, c)

SpecPasskeys == Init /\ [][NextPasskeys]_vars

(* Calls on the credential list of one vault that overlap *)
NextCredOps ==
    \/ \E name \in VaultNames, pw \in CreatePasswords : CreateVault(name, pw)
    \/ \E op \in CredOpNames, v \in VaultIds, c \in 0..MaxPasskeys :
          CredentialsRead(op, v, c)
    \/ \E i \in 1..MaxCredOps, ceremony \in {"direct", "cancelled"} :
          CredentialsStored(i, ceremony)

SpecCredOps == Init /\ [][NextCredOps]_vars

-----------------------------------------------------------------------------
(* stores/notes.ts: the list of notes is reloaded through the promises
   chained in loadingInProgress.  loads holds one entry per promise, in the
   order of the chain: "waiting" (its then-callback has not run), "running"
   (its loadAllNotes is in flight), "fulfilled" or "rejected". *)

(* loadAllNotes up to its first await: with no database or no key it sets the
   empty list and returns; otherwise it is in flight until the read of the
   notes table and the decryptions settle *)
loadAllNotes(db, key) ==
    IF IsNull(db) \/ IsNull(key) THEN "fulfilled" ELSE "running"

queueLoadAllNotesUnchained(chain, db, key) ==
    Append(chain, loadAllNotes(db, key))

queueLoadAllNotes(chain, db, key) ==
    IF Len(chain) > 0 THEN Append(chain, "waiting")
    ELSE Append(chain, loadAllNotes(db, key))

(* What loadAllNotes sets the list to: the notes of the database whose
   metadata decrypts under the key; a note that fails is left out *)
decryptedNotes(st, db, key) ==
    {id \in DOMAIN notesOf(st, db) :
        decryptData(notesOf(st, db)[id].metaCipher, notesOf(st, db)[id].metaIv,
                    key).ok}

(* A call of loadAllNotes has just become the last promise of the chain or
   has just been made by a then-callback: with no database or no key it sets
   the empty list and returns; otherwise it asks for the notes of activeDb
   at once and keeps the key it found for the decryptions: what it will set
   the list to is fixed by the store as it is now *)
loadBegins(status, db, key) ==
    IF status = "running"
    THEN /\ flight' = [db |-> db, key |-> key,
                        result |-> decryptedNotes(stores, db, key)]
         /\ UNCHANGED notesWithMetadata
    ELSE IF status = "fulfilled"
         THEN notesWithMetadata' = {} /\ UNCHANGED flight
         ELSE UNCHANGED <<flight, notesWithMetadata>>

(* queueLoadAllNotes() *)
requestLoad(db, key) ==
    /\ loads' = queueLoadAllNotes(loads, db, key)
    /\ loadBegins(queueLoadAllNotes(loads, db, key)[Len(loads) + 1], db, key)

(* The module is loaded before anything sets a database: its subscription to
   keyAvailable is called at once and finds no database *)
NotesSubscribed == IsNull(activeDb) /\ Subscribe("notes")

(* setActiveDatabase(db), called by the page or by the subscription to the
   vault store's activeDatabase when db !== activeDb *)
SetActiveDatabase(db) ==
    /\ subs["notes"].on
    /\ db # activeDb
    /\ IF IsNull(db) THEN TRUE
       ELSE Exists(stores, db) /\ Len(loads) < MaxLoads
    /\ setActiveDatabase(db)
    /\ IF IsNull(db)
       THEN notesWithMetadata' = {} /\ UNCHANGED <<loads, flight>>
       ELSE requestLoad(db, getKey)
    /\ UNCHANGED <<stores, sessionVars, rnd, rot, last, made, vaultState,
                   inactivityState, checkInterval, timers, inactive, loading, page,
                   lockSnap, histVars, authenticator, ivLog, probe, credOps>>

(* setKey / clearKey with the notes store subscribed: the callback runs when
   the signal changes, and queues a load when the key became available and a
   database is set *)
KeyAvailableChanged(key) ==
    /\ subs["notes"].on
    /\ Len(calls) < MaxCalls
    /\ Len(loads) < MaxLoads
    /\ IF IsNull(key) THEN clearKey ELSE setKey(key)
    /\ calls' = Append(calls, [op |-> IF IsNull(key) THEN "clearKey"
                                      ELSE "setKey",
                               key |-> key])
    /\ noteChange(~IsNull(key))
    /\ IF ~IsNull(key) /\ ~keyAvailable /\ ~IsNull(activeDb)
       THEN requestLoad(activeDb, key)
       ELSE UNCHANGED <<loads, flight, notesWithMetadata>>
    /\ UNCHANGED <<stores, rnd, rot, last, made, uiVars, authenticator, probe,
                   ivLog, faults, runs, credOps>>

(* db.notes.hook('creating') and db.notes.hook('deleting') *)
NotesHook ==
    /\ ~IsNull(activeDb)
    /\ Len(loads) < MaxLoads
    /\ requestLoad(activeDb, getKey)
    /\ UNCHANGED <<stores, sessionVars, rnd, rot, last, made, uiVars, histVars,
                   authenticator, ivLog, probe, credOps>>

(* createFirstNote with the hooks set up: db.notes.add runs the 'creating'
   hook *)
NoteCreated(id) ==
    /\ subs["notes"].on
    /\ ~IsNull(activeDb)
    /\ ~IsNull(getKey)
    /\ Exists(stores, activeDb)
    /\ Len(loads) < MaxLoads
    /\ notesCount(stores, activeDb) < MaxListed
    /\ \A v \in VaultIds : id \notin DOMAIN notesOf(stores, v)
    /\ stores' = notesAdd(stores, activeDb,
                          newNote(id, metadataOf(id), contentOf(id), getKey, id))
    /\ ivLog' = ivLog
                 (+) used(newNote(id, metadataOf(id), contentOf(id), getKey,
                                  id).metaCipher)
                 (+) used(newNote(id, metadataOf(id), contentOf(id), getKey,
                                  id).contentCipher)
    /\ requestLoad(activeDb, getKey)
    /\ UNCHANGED <<sessionVars, rnd, rot, last, made, uiVars, histVars,
                   authenticator, probe, credOps>>

(* stores/vault.ts lockVault with the notes store subscribed: the key is
   cleared, the database is closed, and vaultState.set(initialState) makes
   the subscription of notes.ts call setActiveDatabase(null) *)
LockVaultNotes ==
    /\ subs["notes"].on
    /\ ~IsNull(activeDb)
    /\ clearKey
    /\ setActiveDatabase(Null)
    /\ notesWithMetadata' = {}
    /\ UNCHANGED <<stores, rnd, rot, last, made, vaultState, inactivityState,
                   checkInterval, timers, inactive, loading, page, lockSnap,
                   histVars, authenticator, ivLog, probe, loads, flight,
                   credOps>>

(* loadingInProgress.then(() => loadAllNotes()): the callback runs once the
   promise before it is fulfilled; a rejection is passed on without a call *)
LoadStarts(i) ==
    /\ i \in DOMAIN loads /\ i > 1
    /\ loads[i] = "waiting"
    /\ loads[i - 1] \in {"fulfilled", "rejected"}
    /\ loads' = [loads EXCEPT ![i] = IF loads[i - 1] = "rejected"
                                     THEN "rejected"
                                     ELSE loadAllNotes(activeDb, getKey)]
    /\ loadBegins(IF loads[i - 1] = "rejected" THEN "rejected"
                  ELSE loadAllNotes(activeDb, getKey), activeDb, getKey)
    /\ UNCHANGED <<stores, sessionVars, rnd, rot, last, made, uiVars, histVars,
                   authenticator, ivLog, probe, credOps>>

(* The load in flight sets the list to what it has read and decrypted, and
   returns; or its read of the notes table rejects *)
LoadSettles(i, rejects) ==
    /\ i \in DOMAIN loads
    /\ loads[i] = "running"
    /\ loads' = [loads EXCEPT ![i] = IF rejects THEN "rejected"
                                     ELSE "fulfilled"]
    /\ notesWithMetadata' =
          IF rejects \/ IsNull(flight) THEN notesWithMetadata
          ELSE flight.result
    /\ flight' = Null
    /\ UNCHANGED <<stores, sessionVars, rnd, rot, last, made, uiVars, histVars,
                   authenticator, ivLog, probe, credOps>>

NextLoads ==
    \/ \E name \in VaultNames, pw \in CreatePasswords :
          IsNull(activeDb) /\ CreateVault(name, pw)
    \/ NotesSubscribed
    \/ \E db \in VaultIds \cup {Null} : SetActiveDatabase(db)
    \/ \E key \in SessionKeys \cup {Null} : KeyAvailableChanged(key)
    \/ NotesHook
    \/ \E id \in 1..MaxListed : NoteCreated(id)
    \/ LockVaultNotes
    \/ \E i \in 1..MaxLoads : LoadStarts(i)
    \/ \E i \in 1..MaxLoads, rejects \in BOOLEAN : LoadSettles(i, rejects)

SpecLoads == Init /\ [][NextLoads]_vars

(* Promise callbacks are run once their promise has settled, and a read of
   the notes table and the decryptions after it settle one way or the other *)
SpecLoadsRun ==
    /\ SpecLoads
    /\ \A i \in 1..MaxLoads :
          /\ WF_vars(LoadStarts(i))
          /\ WF_vars(\E rejects \in BOOLEAN : LoadSettles(i, rejects))

-----------------------------------------------------------------------------
(* A vault in use: notes, the folder tree, the vault settings and passkeys
   are written, and the password is changed, with no storage fault *)

FolderTrees == {[kind |-> "folderTree", folders |-> <<"F1">>, version |-> 1]}

(* stores/notes.ts saveFolderTree *)
SaveFolderTree(tree) ==
    /\ ~IsNull(activeDb)
    /\ Exists(stores, activeDb)
    /\ settingsGet(stores, activeDb, "folders") # tree
    /\ stores' = settingsPut(stores, activeDb, "folders", tree)
    /\ rot' = IF RotationOver THEN rot ELSE [rot EXCEPT !.added = TRUE]
    /\ last' = NoOutcome
    /\ UNCHANGED <<sessionVars, rnd, made, uiVars, authenticator, probe, loads, flight, notesWithMetadata, credOps, ivLog,
                   histVars>>

NextVault ==
    \/ \E name \in VaultNames, pw \in CreatePasswords : CreateVault(name, pw)
    \/ \E v \in VaultIds : ActivateVault(v)
    \/ \E id \in NoteIds : AddNote(id, metadataOf(id), contentOf(id))
    \/ \E tree \in FolderTrees : SaveFolderTree(tree)
    \/ \E t \in Timeouts : UpdateVaultSettings(t)
    \/ \E v \in VaultIds, name \in CredentialNames :
          RegisterPasskey(v, name, "direct")
    \/ \E v \in VaultIds, cur \in CreatePasswords :
          ChangeVaultPassword(v, cur, "NewPass1!")
    \/ RotProvision
    \/ RotLoadBatch
    \/ RotCopyNote
    \/ RotCopyFolders
    \/ RotVerifyIds
    \/ RotReopen
    \/ RotSample
    \/ RotCommit
    \/ RotCatch
    \/ Settle

SpecVault == Init /\ [][NextVault]_vars

-----------------------------------------------------------------------------
(* Notes written and edited, and the password changed, with no storage
   fault: the records a rotation migrates have been saved by the editor *)

NextNotes ==
    \/ \E name \in VaultNames, pw \in CreatePasswords : CreateVault(name, pw)
    \/ \E v \in VaultIds : ActivateVault(v)
    \/ \E id \in NoteIds : AddNote(id, metadataOf(id), contentOf(id))
    \/ \E id \in NoteIds, html \in Bodies : SaveNote(id, html)
    \/ \E v \in VaultIds, cur \in CreatePasswords :
          ChangeVaultPassword(v, cur, "NewPass1!")
    \/ RotProvision
    \/ RotLoadBatch
    \/ RotCopyNote
    \/ RotCopyFolders
    \/ RotVerifyIds
    \/ RotReopen
    \/ RotSample
    \/ RotCommit
    \/ RotCatch
    \/ Settle

SpecNotes == Init /\ [][NextNotes]_vars

-----------------------------------------------------------------------------
(* Migrate over vaults of many notes: untitled notes are created one after
   the other, then the password is changed with nothing else writing to the
   vault, and the run is followed to the end of the Phase 3 loop. *)

PagedNoteIds == 1..(MaxPages * batchSize + 1)

untitledMetadata == [title |-> "Untitled Note", tags |-> "", color |-> "undefined"]

emptyContent == [body |-> ""]

(* createNewNote: the UUID and Date.now() are new for every note *)
createNewNote(noteId) ==
    /\ RotationOver
    /\ ~IsNull(activeDb)
    /\ ~IsNull(getKey)
    /\ Exists(stores, activeDb)
    /\ noteId \in PagedNoteIds
    /\ noteId = notesCount(stores, activeDb) + 1
    /\ stores' = notesAdd(stores, activeDb,
                          newNote(noteId, untitledMetadata, emptyContent,
                                  getKey, noteId))
    /\ ivLog' = ivLog
                 (+) used(newNote(noteId, untitledMetadata, emptyContent,
                                  getKey, noteId).metaCipher)
                 (+) used(newNote(noteId, untitledMetadata, emptyContent,
                                  getKey, noteId).contentCipher)
    /\ UNCHANGED <<sessionVars, rnd, rot, made, uiVars, authenticator, probe, loads, flight, notesWithMetadata, credOps,
                   histVars>>
    /\ last' = NoOutcome

NextPaging ==
    \/ \E name \in VaultNames, pw \in CreatePasswords : CreateVault(name, pw)
    \/ \E v \in VaultIds : ActivateVault(v)
    \/ \E noteId \in PagedNoteIds : createNewNote(noteId)
    \/ \E v \in VaultIds, cur \in CreatePasswords :
          ChangeVaultPassword(v, cur, "NewPass1!")
    \/ RotProvision
    \/ RotLoadBatch
    \/ RotCopyNote

SpecPaging == Init /\ [][NextPaging]_vars

-----------------------------------------------------------------------------
(* The envelope functions of services/encryption.ts on their own: one call of
   an encrypting function on arguments chosen at the start, then one call of
   the decrypting function on the envelope, as produced or altered. *)

MaxDraw == 2

Payloads ==
    [data |-> {metadataOf(1), metadataOf(2), contentOf(1)},
     settings |-> {VaultSettings(0), VaultSettings(5)},
     dataKey |-> SessionKeys]

MasterKeys ==
    {deriveMasterKey(pw, RandomBytes(SALT_SIZE, 1)).val :
        pw \in {"Passw0rd!", "NewPass1!"}}

EnvelopeKeys ==
    [data |-> SessionKeys, settings |-> SessionKeys, dataKey |-> MasterKeys]

ProbeInputs ==
    UNION {[fn : {f}, step : {"inputs"}, data : Payloads[f],
            key : EnvelopeKeys[f], n : 1..MaxDraw, tamper : {"none"},
            envelope : {Null}, result : {Null}] :
           f \in {"data", "settings", "dataKey"}}

InitEnvelope == Constructed /\ probe \in ProbeInputs

encryptWith(fn, data, key, n) ==
    CASE fn = "data" -> encryptData(data, key, n)
      [] fn = "settings" -> encryptSettings(data, key, n)
      [] fn = "dataKey" -> encryptDataKey(data, key, n)

decryptWith(fn, ciphertext, iv, key) ==
    CASE fn = "data" -> decryptData(ciphertext, iv, key)
      [] fn = "settings" -> decryptSettings(ciphertext, iv, key)
      [] fn = "dataKey" -> decryptDataKey(ciphertext, iv, key)

Encrypt ==
    /\ probe.step = "inputs"
    /\ encryptWith(probe.fn, probe.data, probe.key, probe.n).ok
    /\ probe' = [probe EXCEPT
                    !.step = "encrypted",
                    !.envelope = encryptWith(probe.fn, probe.data, probe.key,
                                             probe.n).val]
    /\ UNCHANGED <<stores, sessionVars, rnd, rot, last, made, uiVars,
                   authenticator, ivLog, histVars, loads, flight, notesWithMetadata, credOps>>

(* crypto.subtle.encrypt under a Master Key of bytes that are not a key *)
WrapBytes ==
    /\ probe.step = "inputs"
    /\ probe.fn = "dataKey"
    /\ probe' = [probe EXCEPT
                    !.step = "encrypted",
                    !.tamper = "notAKey",
                    !.envelope =
                        [ciphertext |->
                             AesGcmEncrypt(probe.key,
                                 RandomBytes(IV_SIZE, probe.n),
                                 JSONstringify(contentOf(1))),
                         iv |-> RandomBytes(IV_SIZE, probe.n)]]
    /\ UNCHANGED <<stores, sessionVars, rnd, rot, last, made, uiVars,
                   authenticator, ivLog, histVars, loads, flight, notesWithMetadata, credOps>>

Tampers == {"none", "wrongKey", "wrongIv", "shortIv", "flipped"}

(* The arguments the decrypting function is called with *)
tampered(tamper, envelope, key, otherKey, m) ==
    [ciphertext |-> IF tamper = "flipped"
                    THEN [envelope.ciphertext EXCEPT !.intact = FALSE]
                    ELSE envelope.ciphertext,
     iv |-> CASE tamper = "wrongIv" -> RandomBytes(IV_SIZE, m)
              [] tamper = "shortIv" -> RandomBytes(IV_SIZE - 1, envelope.iv.id)
              [] OTHER -> envelope.iv,
     key |-> IF tamper = "wrongKey" THEN otherKey ELSE key]

Decrypt(tamper, otherKey, m) ==
    /\ probe.step = "encrypted"
    /\ tamper # "none" => probe.tamper = "none"
    /\ tamper = "wrongKey" => otherKey # probe.key
    /\ tamper = "wrongIv" => RandomBytes(IV_SIZE, m) # probe.envelope.iv
    /\ LET args == tampered(tamper, probe.envelope, probe.key, otherKey, m)
       IN probe' = [probe EXCEPT
                       !.step = "decrypted",
                       !.tamper = IF tamper = "none" THEN @ ELSE tamper,
                       !.result = decryptWith(probe.fn, args.ciphertext,
                                              args.iv, args.key)]
    /\ UNCHANGED <<stores, sessionVars, rnd, rot, last, made, uiVars,
                   authenticator, ivLog, histVars, loads, flight, notesWithMetadata, credOps>>

NextEnvelope ==
    \/ Encrypt
    \/ WrapBytes
    \/ \E tamper \in Tampers, m \in 1..(MaxDraw + 1),
          otherKey \in EnvelopeKeys[probe.fn] : Decrypt(tamper, otherKey, m)

SpecEnvelope == InitEnvelope /\ [][NextEnvelope]_vars

-----------------------------------------------------------------------------
(* deriveMasterKey on its own: two derivations, from arguments chosen at the
   start and from a second password and salt, then a Data Key wrapped under
   the first Master Key and unwrapped under the second. *)

DerivePasswords == {"Passw0rd!", "NewPass1!", "short"}

DeriveSalts ==
    {RandomBytes(SALT_SIZE, 1), RandomBytes(SALT_SIZE, 2),
     RandomBytes(vaultSaltBytes, 1), EmptyBuffer}

DeriveInputs ==
    [fn : {"deriveMasterKey"}, step : {"inputs"}, password : DerivePasswords,
     salt : DeriveSalts, data : SessionKeys, n : 1..MaxDraw,
     password2 : {""}, salt2 : {Null}, key1 : {Null}, key2 : {Null},
     envelope : {Null}, result : {Null}]

InitDerive == Constructed /\ probe \in DeriveInputs

DeriveTwice(password2, salt2) ==
    /\ probe.step = "inputs"
    /\ probe' = [probe EXCEPT
                    !.step = IF /\ deriveMasterKey(probe.password, probe.salt).ok
                                /\ deriveMasterKey(password2, salt2).ok
                             THEN "derived" ELSE "rejected",
                    !.password2 = password2,
                    !.salt2 = salt2,
                    !.key1 = deriveMasterKey(probe.password, probe.salt),
                    !.key2 = deriveMasterKey(password2, salt2)]
    /\ UNCHANGED <<stores, sessionVars, rnd, rot, last, made, uiVars,
                   authenticator, ivLog, histVars, loads, flight, notesWithMetadata, credOps>>

WrapUnderFirst ==
    /\ probe.step = "derived"
    /\ probe' = [probe EXCEPT
                    !.step = "wrapped",
                    !.envelope = encryptDataKey(probe.data, probe.key1.val,
                                                probe.n).val]
    /\ UNCHANGED <<stores, sessionVars, rnd, rot, last, made, uiVars,
                   authenticator, ivLog, histVars, loads, flight, notesWithMetadata, credOps>>

UnwrapUnderSecond ==
    /\ probe.step = "wrapped"
    /\ probe' = [probe EXCEPT
                    !.step = "unwrapped",
                    !.result = decryptDataKey(probe.envelope.ciphertext,
                                              probe.envelope.iv,
                                              probe.key2.val)]
    /\ UNCHANGED <<stores, sessionVars, rnd, rot, last, made, uiVars,
                   authenticator, ivLog, histVars, loads, flight, notesWithMetadata, credOps>>

NextDerive ==
    \/ \E password2 \in DerivePasswords, salt2 \in DeriveSalts :
          DeriveTwice(password2, salt2)
    \/ WrapUnderFirst
    \/ UnwrapUnderSecond

SpecDerive == InitDerive /\ [][NextDerive]_vars

-----------------------------------------------------------------------------
(* What the claims speak of *)

AllChecks == {"count", "ids", "reopen", "sample"}

(* A step taken by the running changeVaultPassword call *)
RunStep == ~RotationOver /\ [rot' EXCEPT !.added = rot.added] # rot

(* The store being rotated still holds its key record and every note it
   held when the call began, byte for byte *)
OldStoreIntact ==
    /\ Exists(stores, rot.vaultId)
    /\ retrieveEncryptedDataKey(stores, rot.vaultId) =
           rot.snap.settings.encrypted_data_key
    /\ \A id \in DOMAIN rot.snap.notes :
          /\ id \in DOMAIN notesOf(stores, rot.vaultId)
          /\ notesOf(stores, rot.vaultId)[id] = rot.snap.notes[id]

(* The password a store's key record was wrapped under *)
passwordOf(db) == db.settings.encrypted_data_key.encryptedKey.key.pw

(* No byte of the key record differs from what was written *)
KeyRecordSound(keyData) ==
    /\ keyData.encryptedKey.intact
    /\ keyData.keyIv = keyData.encryptedKey.iv
    /\ keyData.salt = keyData.encryptedKey.key.salt

(* What a reader holding the key sees in a table of notes *)
Readable(notes, key) ==
    [id \in DOMAIN notes |->
        [metadata |-> decryptData(notes[id].metaCipher, notes[id].metaIv, key),
         content |-> decryptData(notes[id].contentCipher, notes[id].contentIv,
                                 key)]]

AllReadable(notes, key) ==
    \A id \in DOMAIN notes :
        Readable(notes, key)[id].metadata.ok /\ Readable(notes, key)[id].content.ok

-----------------------------------------------------------------------------
(* C1: while a changeVaultPassword call runs, and after it has thrown, the
   old store exists with its original key record and all its original notes
   unless all four Verify-New checks have passed; no step of the call writes
   to the old store, and the only step that removes it is Commit. *)
C1_OldStoreKept ==
    (~RotationOver /\ rot.checked # AllChecks) => OldStoreIntact

C1_StepLeavesOldStore ==
    RunStep =>
        \/ stores'[rot.vaultId] = stores[rot.vaultId]
        \/ /\ rot.pc = "commit"
           /\ rot.checked = AllChecks
           /\ ~Exists(stores', rot.vaultId)

C1_NoDataLossDuringRotation ==
    []C1_OldStoreKept /\ [][C1_StepLeavesOldStore]_vars

(* A call that failed on the second note of Migrate, the old store whole *)
C1_Witness ==
    /\ rot.pc = "thrown"
    /\ rot.error = "Decryption failed"
    /\ rot.processed = 1
    /\ rot.checked = {}
    /\ Cardinality(DOMAIN rot.snap.notes) = 2
    /\ OldStoreIntact

-----------------------------------------------------------------------------
(* C2: when a changeVaultPassword call throws after it has named its
   temporary store, the temporary store is gone unless the request to delete
   it failed (that failure is ignored), and the original vault is intact and
   opens with the current password the call was given. *)
RolledBack == rot.pc = "thrown" /\ ~IsNull(rot.newVaultId)

C2_RollbackBestEffort ==
    RolledBack =>
        /\ Exists(stores, rot.newVaultId) => rot.cleanupFailed
        /\ OldStoreIntact
        /\ openVaultResult(stores, rot.vaultId, rot.currentPassword).ok

(* A call that failed on the second note of Migrate, the temporary store
   removed by the catch block *)
C2_Witness ==
    /\ RolledBack
    /\ rot.error = "Decryption failed"
    /\ rot.processed = 1
    /\ ~Exists(stores, rot.newVaultId)
    /\ openVaultResult(stores, rot.vaultId, rot.currentPassword).ok

(* C2 as stated: after any such throw the temporary store no longer exists *)
C2_TempStoreAlwaysGone ==
    RolledBack =>
        /\ ~Exists(stores, rot.newVaultId)
        /\ OldStoreIntact
        /\ openVaultResult(stores, rot.vaultId, rot.currentPassword).ok

-----------------------------------------------------------------------------
(* C3: a changeVaultPassword call with the correct current password and a
   new password that passes validation and differs from the current one,
   with no stored byte altered, no note added meanwhile and no delete request
   failing, returns; the new vault then opens with the new password, holds
   the same note identifiers with the same decrypted metadata and content,
   does not open with the old password ('Invalid password'), and the old
   identifier no longer exists. *)
Undisturbed ==
    /\ RotationEnded
    /\ ~IsNull(rot.oldDataKey)
    /\ faults = 0
    /\ ~rot.added
    /\ AllReadable(rot.snap.notes, rot.oldDataKey)
    /\ rot.error # "Delete request failed"

Rotated ==
    /\ rot.pc = "returned"
    /\ rot.newVaultId = tempVaultId(rot.n)
    /\ openVaultResult(stores, rot.newVaultId, rot.newPassword).ok
    /\ DOMAIN notesOf(stores, rot.newVaultId) = DOMAIN rot.snap.notes
    /\ AllReadable(notesOf(stores, rot.newVaultId),
                   openVaultResult(stores, rot.newVaultId, rot.newPassword).val)
    /\ Readable(notesOf(stores, rot.newVaultId),
                openVaultResult(stores, rot.newVaultId, rot.newPassword).val)
         = Readable(rot.snap.notes, rot.oldDataKey)
    /\ ~Exists(stores, rot.vaultId)

OldPasswordRejected ==
    openVaultResult(stores, rot.newVaultId, rot.currentPassword)
        = Err("Invalid password")

-----------------------------------------------------------------------------
(* C4: a changeVaultPassword call whose current password is not the vault's
   throws 'Current password is incorrect' when that password and the stored
   salt pass input validation, and the validation error otherwise; in both
   cases it names no temporary store, creates none, leaves the vault as it
   was, and the vault still opens with its own password if its key record is
   sound. *)
WrongCurrent ==
    /\ rot.pc \in {"catch", "thrown"}
    /\ IsNull(rot.oldDataKey)
    /\ rot.currentPassword # passwordOf(rot.snap)

Untouched ==
    /\ IsNull(rot.newVaultId)
    /\ ~Exists(stores, tempVaultId(rot.n))
    /\ OldStoreIntact
    /\ KeyRecordSound(rot.snap.settings.encrypted_data_key)
         => openVaultResult(stores, rot.vaultId, passwordOf(rot.snap)).ok

C4_WrongCurrentPassword ==
    WrongCurrent =>
        /\ rot.error =
             IF deriveMasterKey(rot.currentPassword,
                                rot.snap.settings.encrypted_data_key.salt).ok
             THEN "Current password is incorrect"
             ELSE deriveMasterKey(rot.currentPassword,
                                  rot.snap.settings.encrypted_data_key.salt).err
        /\ Untouched

(* A wrong password of valid length given for a vault that holds a note *)
C4_Witness ==
    /\ WrongCurrent
    /\ rot.pc = "thrown"
    /\ rot.error = "Current password is incorrect"
    /\ validatePassword(rot.currentPassword) = ""
    /\ DOMAIN rot.snap.notes # {}
    /\ Untouched

(* C4 as stated: every wrong current password gets the one message *)
C4_AlwaysIncorrectMessage ==
    WrongCurrent =>
        /\ rot.error = "Current password is incorrect"
        /\ Untouched

-----------------------------------------------------------------------------
(* C5: openVault on an existing vault with a password that is not the
   vault's, or with an altered key record, fails; the error is 'Invalid
   password' when the password and the stored salt pass input validation and
   the validation error otherwise; the Session Key Manager is left as it
   was. *)
OpenedJust == last.op = "openVault" /\ Exists(stores, last.vaultId)

ShouldNotOpen ==
    /\ OpenedJust
    /\ \/ last.password # passwordOf(stores[last.vaultId])
       \/ ~KeyRecordSound(retrieveEncryptedDataKey(stores, last.vaultId))

C5_UnlockFailure ==
    ShouldNotOpen =>
        /\ ~last.ok
        /\ last.err =
             IF deriveMasterKey(last.password,
                    retrieveEncryptedDataKey(stores, last.vaultId).salt).ok
             THEN "Invalid password"
             ELSE deriveMasterKey(last.password,
                    retrieveEncryptedDataKey(stores, last.vaultId).salt).err
        /\ getKey = last.keyBefore
        /\ hasKey = ~IsNull(last.keyBefore)
        /\ keyAvailable = hasKey

(* The right password on a vault whose stored IV was altered, no key held *)
C5_Witness ==
    /\ ShouldNotOpen
    /\ last.password = passwordOf(stores[last.vaultId])
    /\ ~KeyRecordSound(retrieveEncryptedDataKey(stores, last.vaultId))
    /\ last.err = "Invalid password"
    /\ IsNull(last.keyBefore)
    /\ ~hasKey

(* C5 as stated: the single error 'Invalid password' *)
C5_AlwaysInvalidPassword ==
    ShouldNotOpen =>
        /\ ~last.ok
        /\ last.err = "Invalid password"
        /\ IsNull(last.keyBefore) => ~hasKey

-----------------------------------------------------------------------------
(* C6: openVault with the vault's password on a vault whose key record is
   sound succeeds and puts into the Session Key Manager the Data Key that
   was generated for the vault: what is encrypted under the one decrypts
   under the other, and hasKey() is true. *)
Probe == [title |-> "probe"]

Interchangeable(k1, k2) ==
    /\ decryptData(encryptData(Probe, k1, 0).val.ciphertext,
                   encryptData(Probe, k1, 0).val.iv, k2) = Ok(Probe)
    /\ decryptData(encryptData(Probe, k2, 0).val.ciphertext,
                   encryptData(Probe, k2, 0).val.iv, k1) = Ok(Probe)

C6_UnlockYieldsOwnKey ==
    (/\ OpenedJust
     /\ last.password = passwordOf(stores[last.vaultId])
     /\ KeyRecordSound(retrieveEncryptedDataKey(stores, last.vaultId)))
        => /\ last.ok
           /\ hasKey
           /\ keyAvailable
           /\ ~IsNull(made[last.vaultId])
           /\ Interchangeable(getKey, made[last.vaultId])

(* createVault, the key cleared by the lock handler, then openVault *)
C6_Witness ==
    /\ OpenedJust
    /\ ~last.vaultId.temp
    /\ last.ok
    /\ IsNull(last.keyBefore)
    /\ hasKey
    /\ Interchangeable(getKey, made[last.vaultId])

-----------------------------------------------------------------------------
(* C7: after any sequence of createVault, openVault, changeVaultPassword,
   registerPasskey, unlockWithPasskey and removePasskey, no store holds a
   Data Key or its raw bytes as such: the key record holds it as AES-GCM
   ciphertext under a Master Key together with the IV and the salt that
   produced that ciphertext, each passkey credential holds it as ciphertext
   under a PRF-derived key together with its IV, and no other settings
   record holds key material. *)
IsKeyMaterial(v) == v.kind \in {"dataKey", "master", "prfKey", "raw"}

WrappedKeyRecord(keyData) ==
    /\ keyData.encryptedKey.kind = "ct"
    /\ keyData.encryptedKey.key.kind = "master"
    /\ keyData.encryptedKey.pt.kind = "raw"
    /\ keyData.keyIv = keyData.encryptedKey.iv
    /\ keyData.keyIv.len = IV_SIZE
    /\ keyData.salt = keyData.encryptedKey.key.salt
    /\ validateBuffer(keyData.salt, "salt") = ""

WrappedCredential(c) ==
    /\ c.encryptedDataKey.kind = "ct"
    /\ c.encryptedDataKey.key.kind = "prfKey"
    /\ c.encryptedDataKey.pt.kind = "raw"
    /\ c.dataKeyIv = c.encryptedDataKey.iv
    /\ c.dataKeyIv.len = IV_SIZE

C7_DataKeyOnlyWrapped ==
    \A v \in VaultIds :
        Exists(stores, v) =>
            /\ IsNull(retrieveEncryptedDataKey(stores, v))
                 \/ WrappedKeyRecord(retrieveEncryptedDataKey(stores, v))
            /\ \A i \in DOMAIN getVaultCredentials(stores, v) :
                  WrappedCredential(getVaultCredentials(stores, v)[i])
            /\ \A id \in {"vault_metadata", "folders", "vault_settings"} :
                  ~IsKeyMaterial(settingsGet(stores, v, id))

(* A rotated vault that was then unlocked with a passkey registered on it *)
C7_Witness ==
    /\ last.op = "unlockWithPasskey"
    /\ last.ok
    /\ last.vaultId.temp
    /\ WrappedKeyRecord(retrieveEncryptedDataKey(stores, last.vaultId))
    /\ Len(getVaultCredentials(stores, last.vaultId)) = 2

-----------------------------------------------------------------------------
(* C8: after any sequence of setKey and clearKey calls the manager holds one
   key or none; getKey() is the key of the last call if that was a setKey
   and null if it was a clearKey or if there was no call; hasKey() is true
   exactly when getKey() is not null and exactly when keyAvailable is true. *)
KeyOfCalls ==
    IF calls = << >> THEN Null
    ELSE IF calls[Len(calls)].op = "clearKey" THEN Null
    ELSE calls[Len(calls)].key

C8_SessionKeyManager ==
    /\ getKey \in SessionKeys \cup {Null}
    /\ getKey = KeyOfCalls
    /\ hasKey <=> ~IsNull(getKey)
    /\ hasKey <=> keyAvailable

(* setKey, setKey with another key, clearKey, setKey *)
C8_Witness ==
    /\ Len(calls) = 4
    /\ calls[1].op = "setKey" /\ calls[2].op = "setKey"
    /\ calls[1].key # calls[2].key
    /\ calls[3].op = "clearKey"
    /\ getKey = calls[4].key
    /\ hasKey

-----------------------------------------------------------------------------
(* C9: a subscriber of keyAvailable has received the availability at the
   time it subscribed, followed by every later change of availability made
   by setKey and clearKey, in order and nothing else; so the last value it
   received is hasKey(). *)
AvailableAt(i) == IF i = 0 THEN FALSE ELSE changes[i]

Delivered(s) ==
    <<AvailableAt(subs[s].since)>>
        \o SubSeq(changes, subs[s].since + 1, Len(changes))

C9_AvailabilitySignal ==
    \A s \in Subscribers :
        subs[s].on =>
            /\ subs[s].got = Delivered(s)
            /\ subs[s].got[Len(subs[s].got)] = hasKey

(* The test's subscriber: false, true, false, true, with a repeated setKey
   that changes nothing in between *)
C9_Witness ==
    /\ subs["test"].on
    /\ subs["test"].got = <<FALSE, TRUE, FALSE, TRUE>>
    /\ subs["notes"].on
    /\ subs["notes"].got = <<TRUE, FALSE, TRUE>>
    /\ Len(calls) = 4

-----------------------------------------------------------------------------
(* C10: when lockVault returns, called from a lock button or from the
   inactivity check, no session key is held, activeVault and activeDatabase
   are null, no check timer is scheduled and isMonitoring is false; when the
   call that ran it has completed, the key, the active vault and database and
   the timer are still so.  After the page-level lock handler and after the
   beforeunload handler no session key is held. *)
AllLocked ==
    [hasKey |-> FALSE, activeVault |-> Null, activeDatabase |-> Null,
     isMonitoring |-> FALSE, checkInterval |-> FALSE]

C10_KeyClearedOnLock ==
    /\ last.op \in {"lockVault", "handleInactivityLock"} =>
          /\ lockSnap = AllLocked
          /\ ~hasKey /\ ~keyAvailable
          /\ IsNull(vaultState.activeVault)
          /\ IsNull(vaultState.activeDatabase)
          /\ ~checkInterval
    /\ last.op \in {"handleLockVault", "beforeunload"} =>
          ~hasKey /\ ~keyAvailable

(* The inactivity check has locked an unlocked vault whose key was held *)
C10_Witness ==
    /\ last.op = "handleInactivityLock"
    /\ ~IsNull(last.keyBefore)
    /\ ~IsNull(last.vaultId)
    /\ lockSnap = AllLocked
    /\ ~hasKey

-----------------------------------------------------------------------------
(* C11: for every payload that JSON represents and every key, decryptData of
   the ciphertext and IV that encryptData returned, under the same key,
   returns a value equal to the payload (a property whose value is undefined
   counts as absent, as it does for JSON); the same holds of encryptSettings
   and decryptSettings. *)
defined(obj) == [k \in {f \in DOMAIN obj : obj[f] # "undefined"} |-> obj[k]]

RoundTrip ==
    /\ probe.fn \in {"data", "settings"}
    /\ probe.step = "decrypted"
    /\ probe.tamper = "none"

C11_EnvelopeRoundTrip ==
    RoundTrip =>
        /\ probe.result.ok
        /\ defined(probe.result.val) = defined(probe.data)
        /\ (\A f \in DOMAIN probe.data : probe.data[f] # "undefined")
              => probe.result.val = probe.data

(* Note metadata with every property defined has come back from decryptData,
   and vault settings from decryptSettings *)
C11_Witness ==
    /\ RoundTrip
    /\ \/ probe.fn = "data" /\ probe.result = Ok(metadataOf(2))
       \/ probe.fn = "settings" /\ probe.result = Ok(VaultSettings(5))

-----------------------------------------------------------------------------
(* C12: decryptData (and decryptSettings) called on a ciphertext with a key
   other than the one it was produced under, with another IV, or with a
   byte of the ciphertext altered, fails, and the error is 'Decryption
   failed' in each of these cases. *)
Tampered ==
    /\ probe.fn \in {"data", "settings"}
    /\ probe.step = "decrypted"
    /\ probe.tamper \in {"wrongKey", "wrongIv", "shortIv", "flipped"}

C12_DecryptionFailuresAlike == Tampered => probe.result = Err("Decryption failed")

(* decryptData has been called with a wrong key *)
C12_Witness ==
    /\ Tampered
    /\ probe.fn = "data"
    /\ probe.tamper = "wrongKey"
    /\ probe.result = Err("Decryption failed")

-----------------------------------------------------------------------------
(* C13: decryptDataKey called, with arguments that pass input validation, on
   a wrapped key with another wrapping key, another IV or an altered
   ciphertext, or on a ciphertext whose decrypted bytes cannot be imported as
   a key, fails with 'Failed to decrypt data key'. *)
UnwrapFailed ==
    /\ probe.fn = "dataKey"
    /\ probe.step = "decrypted"
    /\ probe.tamper \in {"wrongKey", "wrongIv", "shortIv", "flipped", "notAKey"}

C13_UnwrapFailuresGeneric ==
    UnwrapFailed => probe.result = Err("Failed to decrypt data key")

-----------------------------------------------------------------------------
(* C14: every encryption made by encryptData, encryptSettings and
   encryptDataKey, the re-encryptions of a rotation and the wrapping of the
   key for a passkey included, is made with a 12-byte IV, and no two
   encryptions under the same key, in any order or interleaving of the
   operations, are made with the same IV. *)
C14_NoIvReuse ==
    \A p \in BagToSet(ivLog) :
        /\ CopiesIn(p, ivLog) = 1
        /\ p.iv.kind = "buf"
        /\ p.iv.len = IV_SIZE

(* A vault whose notes were written and re-encrypted by a rotation, and
   whose settings were encrypted twice under the one Data Key *)
C14_Witness ==
    /\ rot.pc = "returned"
    /\ rot.processed = MaxNotes
    /\ settingsWrites = MaxSettingsWrites
    /\ BagCardinality(ivLog) >= 2 + 4 * MaxNotes + MaxSettingsWrites
    /\ \E p, q \in BagToSet(ivLog) : p.key = q.key /\ p.iv # q.iv

-----------------------------------------------------------------------------
(* C15: deriveMasterKey rejects a password that is empty or shorter than 8
   characters, and a missing or empty salt, with the validation error.
   createVault with such a password fails with that error; so does
   changeVaultPassword with such a new password once the current password
   has been verified.  Neither call creates, changes or deletes a store, and
   the session key is what it was before the call. *)
Rejected(password) == Len(password) < MIN_PASSWORD_LENGTH

PasswordError(password) ==
    IF password = "" THEN "Password must be a non-empty string"
    ELSE "Password must be at least 8 characters"

C15_Rejects ==
    /\ \A password \in Passwords \cup {""}, salt \in {Null, EmptyBuffer} :
          /\ ~deriveMasterKey(password, salt).ok
          /\ deriveMasterKey(password, salt).err =
                IF Rejected(password) THEN PasswordError(password)
                ELSE validateBuffer(salt, "salt")
    /\ (last.op = "createVault" /\ Rejected(last.password)) =>
          /\ ~last.ok
          /\ last.err = PasswordError(last.password)
          /\ getKey = last.keyBefore
          /\ keyAvailable = ~IsNull(last.keyBefore)
    /\ (RotationEnded /\ ~IsNull(rot.oldDataKey) /\ Rejected(rot.newPassword)) =>
          /\ rot.pc = "thrown"
          /\ rot.error = PasswordError(rot.newPassword)
          /\ getKey = rot.keyBefore

C15_NoEffect ==
    /\ (last'.op = "createVault" /\ Rejected(last'.password)) =>
          stores' = stores
    /\ (RunStep /\ Rejected(rot.newPassword)) =>
          /\ stores' = stores
          /\ dataKey' = dataKey
          /\ keyAvailable' = keyAvailable

C15_ValidationBeforeEffects == []C15_Rejects /\ [][C15_NoEffect]_vars

(* changeVaultPassword, given the right current password and a new password
   of five characters for a vault that holds a note, has thrown *)
C15_Witness ==
    /\ rot.pc = "thrown"
    /\ ~IsNull(rot.oldDataKey)
    /\ Rejected(rot.newPassword)
    /\ rot.error = "Password must be at least 8 characters"
    /\ DOMAIN rot.snap.notes # {}
    /\ stores[rot.vaultId] = rot.snap

(* C15 as stated: whatever the current password *)
C15_AnyCurrentPassword ==
    (RotationEnded /\ Rejected(rot.newPassword)) =>
        rot.error = PasswordError(rot.newPassword)

-----------------------------------------------------------------------------
(* C16: every store that createVault or changeVaultPassword has written
   holds one key record, with the fields encryptedKey, keyIv and salt, a
   salt of 32 bytes and a keyIv of 12 bytes. *)
KeyRecordShape(keyData) ==
    /\ ~IsNull(keyData)
    /\ {"encryptedKey", "keyIv", "salt"} \subseteq DOMAIN keyData
    /\ keyData.keyIv.kind = "buf" /\ keyData.keyIv.len = IV_SIZE
    /\ keyData.salt.kind = "buf" /\ keyData.salt.len = SALT_SIZE

C16_KeyRecordShape ==
    \A v \in VaultIds :
        Exists(stores, v) => KeyRecordShape(retrieveEncryptedDataKey(stores, v))

-----------------------------------------------------------------------------
(* C17: in a changeVaultPassword run over the N notes of a vault to which
   nothing is written while the call runs, the progress callback has been
   called once for each record migrated so far, the i-th call with
   current = i and total = N; once Migrate is complete it has been called N
   times, the last time with current = total; when the run has failed on the
   k-th record it has been called k - 1 times; for N = 0 it is never
   called. *)
NotesAtCall == Cardinality(DOMAIN rot.snap.notes)

MigrateComplete ==
    rot.pc \in {"folders", "verifyIds", "reopen", "sample", "commit", "returned"}

FailedOnRecord == rot.pc \in {"catch", "thrown"} /\ rot.batch # << >>

-----------------------------------------------------------------------------
(* C18: every step of changeVaultPassword that migrates a record inserts into
   the new store a note with the identifier, the createdAt and updatedAt
   timestamps and the schemaVersion of the record read from the old store,
   and with the same fields; the four cipher/IV fields are new; no other note
   of the new store and nothing in the old store changes in that step.  Once
   Migrate is complete in a run during which nothing was written to the
   vault, the new store holds one such note for every note of the old
   store. *)
CipherFields == {"metaCipher", "metaIv", "contentCipher", "contentIv"}

IdentityPreserved(original, inserted) ==
    /\ DOMAIN inserted = DOMAIN original
    /\ \A f \in DOMAIN original \ CipherFields : inserted[f] = original[f]
    /\ \A f \in CipherFields : inserted[f] # original[f]

MigratesRecord == rot.pc = "copy" /\ rot'.processed = rot.processed + 1

C18_Step ==
    MigratesRecord =>
        LET original == Head(rot.batch)
            before == notesOf(stores, rot.newVaultId)
            after == notesOf(stores', rot.newVaultId)
        IN /\ DOMAIN after = DOMAIN before \cup {original.id}
           /\ IdentityPreserved(original, after[original.id])
           /\ \A id \in DOMAIN before \ {original.id} : after[id] = before[id]
           /\ stores'[rot.vaultId] = stores[rot.vaultId]

C18_Migrated ==
    (MigrateComplete /\ ~rot.added) =>
        /\ DOMAIN notesOf(stores, rot.newVaultId) = DOMAIN rot.snap.notes
        /\ \A id \in DOMAIN rot.snap.notes :
              IdentityPreserved(rot.snap.notes[id],
                                notesOf(stores, rot.newVaultId)[id])

C18_MigrationPreservesIdentity == [][C18_Step]_vars /\ []C18_Migrated

(* A returned run over two notes, one of them saved by the editor after it
   was created, so that its two timestamps differ *)
C18_Witness ==
    /\ rot.pc = "returned"
    /\ ~rot.added
    /\ DOMAIN rot.snap.notes = {1, 2}
    /\ rot.snap.notes[1].updatedAt # rot.snap.notes[1].createdAt
    /\ rot.snap.notes[2].updatedAt = rot.snap.notes[2].createdAt
    /\ notesOf(stores, rot.newVaultId)[1].updatedAt = rot.snap.notes[1].updatedAt

-----------------------------------------------------------------------------
(* C19: when changeVaultPassword has returned, in a run during which nothing
   else was written to the vault, every settings record the old store held,
   other than the wrapped key record, is present in the new store: the
   encrypted vault settings decrypt under the new Data Key to what they
   decrypted to under the old one, and every other record is the same as in
   the old store. *)
AuxiliaryIds == DOMAIN EmptySettings \ {"encrypted_data_key"}

ReadsBack(id, original, copy) ==
    IF id = "vault_settings"
    THEN /\ decryptSettings(copy.ciphertext, copy.iv, rot.newDataKey).ok
         /\ decryptSettings(copy.ciphertext, copy.iv, rot.newDataKey).val
              = decryptSettings(original.ciphertext, original.iv,
                                rot.oldDataKey).val
    ELSE copy = original

Survives(id) ==
    ~IsNull(rot.snap.settings[id]) =>
        /\ ~IsNull(settingsGet(stores, rot.newVaultId, id))
        /\ ReadsBack(id, rot.snap.settings[id],
                     settingsGet(stores, rot.newVaultId, id))

C19_AuxiliarySettingsSurvive ==
    (rot.pc = "returned" /\ ~rot.added) =>
        \A id \in AuxiliaryIds : Survives(id)

-----------------------------------------------------------------------------
(* C20: when a step of changeVaultPassword has thrown an error inside the try
   block, the catch block ends the run with that same error whether the
   deletion of the temporary store succeeds or fails, and the caller's
   promise rejects with it. *)
Caught == rot.pc = "catch"

Rejects == rot.pc = "thrown" /\ rot'.pc = "idle"

C20_Step ==
    /\ Caught => /\ rot.error # ""
                 /\ rot'.pc \in {"catch", "thrown"}
                 /\ rot'.error = rot.error
    /\ Rejects => /\ last'.op = "changeVaultPassword"
                  /\ ~last'.ok
                  /\ last'.err = rot.error

C20_CleanupKeepsError == [][C20_Step]_vars

(* A run that failed on a note count mismatch, or on a record that could not
   be decrypted, and whose temporary store could not be deleted either *)
C20_Witness ==
    /\ rot.pc = "thrown"
    /\ rot.cleanupFailed
    /\ Exists(stores, rot.newVaultId)
    /\ rot.error \in {"Note count mismatch", "Decryption failed"}

-----------------------------------------------------------------------------
(* C21: every successful registerPasskey appends a credential record that,
   unwrapped with the PRF key of that credential for the vault, imports to a
   key interchangeable with the Data Key it was given; and whenever
   unlockWithPasskey has succeeded on a vault whose credentials were all
   registered with the vault's Data Key, the Session Key Manager holds a key
   interchangeable with the one openVault obtains with the password: each
   decrypts what the other encrypts. *)
PasswordKey(v) == openVaultResult(stores, v, passwordOf(stores[v]))

Unwrapped(c, v) ==
    AesGcmDecrypt(derivePRFKey(prfResult(c.id, v)), c.dataKeyIv,
                  c.encryptedDataKey)

RegisteredWith(c, v, key) ==
    /\ Unwrapped(c, v).ok
    /\ importKey(Unwrapped(c, v).val).ok
    /\ Interchangeable(importKey(Unwrapped(c, v).val).val, key)

C21_Register ==
    (last'.op = "registerPasskey" /\ last'.ok) =>
        LET after == getVaultCredentials(stores', last'.vaultId)
        IN /\ Len(after) = Len(getVaultCredentials(stores, last'.vaultId)) + 1
           /\ RegisteredWith(after[Len(after)], last'.vaultId, getKey)

C21_Unlock ==
    (/\ last.op = "unlockWithPasskey"
     /\ last.ok
     /\ PasswordKey(last.vaultId).ok
     /\ \A i \in DOMAIN getVaultCredentials(stores, last.vaultId) :
           RegisteredWith(getVaultCredentials(stores, last.vaultId)[i],
                          last.vaultId, PasswordKey(last.vaultId).val))
        => /\ hasKey
           /\ keyAvailable
           /\ Interchangeable(getKey, PasswordKey(last.vaultId).val)

C21_AlternateUnlockEquivalence == [][C21_Register]_vars /\ []C21_Unlock

(* A vault unlocked with one of two passkeys registered with its Data Key *)
C21_Witness ==
    /\ last.op = "unlockWithPasskey"
    /\ last.ok
    /\ Len(getVaultCredentials(stores, last.vaultId)) = 2
    /\ \A i \in DOMAIN getVaultCredentials(stores, last.vaultId) :
          RegisteredWith(getVaultCredentials(stores, last.vaultId)[i],
                         last.vaultId, PasswordKey(last.vaultId).val)
    /\ getKey = PasswordKey(last.vaultId).val

-----------------------------------------------------------------------------
(* C22: a Data Key wrapped under the Master Key of one deriveMasterKey call
   unwraps, to the same key, under the Master Key of a second call with the
   same password and the same salt; when the second call's password or salt
   differs, unwrapping under its key fails. *)
SameDerivation ==
    probe.password2 = probe.password /\ probe.salt2 = probe.salt

-----------------------------------------------------------------------------
(* C23: a changeVaultPassword run whose Verify-New step finds the note count
   of the new store different from the count taken from the old store, or an
   identifier of the old store missing from the new store, or the new store
   not opening with the new password, or a sampled note not decrypting under
   the session key, goes to its catch block in that step and leaves the old
   store as it is; the error for missing identifiers names their number and
   lists them; and a run aborted by Verify-New ends with the old store still
   in place. *)
RECURSIVE Listed(_)
Listed(ids) ==
    LET least == CHOOSE i \in ids : \A j \in ids : i <= j
    IN IF ids = {least} THEN ToString(least)
       ELSE ToString(least) \o ", " \o Listed(ids \ {least})

Missing == DOMAIN notesOf(stores, rot.vaultId)
               \ DOMAIN notesOf(stores, rot.newVaultId)

Aborts ==
    /\ rot'.pc = "catch"
    /\ Exists(stores', rot.vaultId)
    /\ stores'[rot.vaultId] = stores[rot.vaultId]

SampledFails ==
    \E i \in rot'.sample :
        LET testNote == notesOf(stores, rot.newVaultId)[i]
        IN \/ ~decryptData(testNote.metaCipher, testNote.metaIv, getKey).ok
           \/ ~decryptData(testNote.contentCipher, testNote.contentIv,
                            getKey).ok

C23_Step ==
    RunStep =>
        /\ (rot.pc = "folders"
               /\ notesCount(stores, rot.newVaultId) # rot.total) => Aborts
        /\ (rot.pc = "verifyIds" /\ Missing # {}) =>
               /\ Aborts
               /\ rot'.error = "Missing " \o ToString(Cardinality(Missing))
                                  \o " note(s) in new vault! IDs: "
                                  \o Listed(Missing) \o ". Aborting."
        /\ (rot.pc = "reopen"
               /\ ~openVaultResult(stores, rot.newVaultId, rot.newPassword).ok)
               => Aborts
        /\ (rot.pc = "sample" /\ SampledFails) => Aborts

AbortedByVerifyNew ==
    /\ rot.pc \in {"catch", "thrown"}
    /\ \/ rot.error = "Note count mismatch"
       \/ "count" \in rot.checked /\ rot.checked # AllChecks

C23_OldStoreStays == AbortedByVerifyNew => Exists(stores, rot.vaultId)

C23_VerifyNewGatesCommit == [][C23_Step]_vars /\ []C23_OldStoreStays

(* A run aborted because two notes written to the old store after Migrate
   are missing from the new store, with the old store still there *)
C23_Witness ==
    /\ rot.pc = "thrown"
    /\ rot.checked = {"count"}
    /\ rot.error = "Missing 2 note(s) in new vault! IDs: 1, 2. Aborting."
    /\ Exists(stores, rot.vaultId)

-----------------------------------------------------------------------------
(* C24: in a changeVaultPassword run over a vault of N notes to which nothing
   else writes and whose notes all decrypt under the old Data Key, for
   every N from 0 to one more than two full pages, a page read never holds
   more than 50 notes nor none; after p pages and k notes of
   the current page the new store holds exactly the first 50 p + k notes of
   the old store in primary-key order, each inserted once; when the loop ends
   the new store holds the identifiers of the old store, N insertions were
   made and ceil(N / 50) pages were read; and the loop ends, because every
   step of it reads the next page, inserts the next note or leaves the loop,
   which can happen at most N + ceil(N / 50) + 1 times. *)
OldIds == DOMAIN rot.snap.notes

PagesOf(count) == (count + batchSize - 1) \div batchSize

PagesRead ==
    IF rot.pc = "copy" THEN rot.offset \div batchSize + 1
    ELSE rot.offset \div batchSize

InMigrate == rot.pc \in {"load", "copy"}

LoopEnded == rot.pc = "folders"

(* The notes inserted are the first of the old store, in key order *)
FirstInserted ==
    LET inserted == DOMAIN notesOf(stores, rot.newVaultId)
    IN /\ inserted \subseteq OldIds
       /\ Cardinality(inserted) = rot.processed
       /\ \A a \in inserted : \A b \in OldIds \ inserted : a < b

Work ==
    rot.processed + PagesRead + (IF LoopEnded THEN 1 ELSE 0)

(* Every note the old store had at the call decrypts under the key that the
   current password unwrapped *)
OldNotesDecrypt ==
    \A id \in OldIds :
        /\ decryptData(rot.snap.notes[id].metaCipher,
                       rot.snap.notes[id].metaIv, rot.oldDataKey).ok
        /\ decryptData(rot.snap.notes[id].contentCipher,
                       rot.snap.notes[id].contentIv, rot.oldDataKey).ok

C24_Exact ==
    /\ InMigrate \/ LoopEnded =>
          /\ rot.total = Cardinality(OldIds)
          /\ Len(rot.batch) <= batchSize
          /\ rot.offset % batchSize = 0
          /\ FirstInserted
          /\ Len(rot.progress) = rot.processed
          /\ rot.processed + Len(rot.batch)
                = IF PagesRead * batchSize < rot.total
                  THEN PagesRead * batchSize ELSE rot.total
          /\ Work <= rot.total + PagesOf(rot.total) + 1
    /\ rot.pc = "copy" => rot.batch # << >>
    /\ LoopEnded =>
          /\ DOMAIN notesOf(stores, rot.newVaultId) = OldIds
          /\ rot.processed = Cardinality(OldIds)
          /\ PagesRead = PagesOf(Cardinality(OldIds))
    /\ rot.pc \in {"catch", "thrown"} =>
          IsNull(rot.newVaultId) \/ ~OldNotesDecrypt

C24_Advance ==
    (InMigrate /\ OldNotesDecrypt) =>
        /\ rot'.pc \in {"load", "copy", "folders"}
        /\ rot' # rot => Work' = Work + 1

C24_PagedMigration == []C24_Exact /\ [][C24_Advance]_vars

(* The loop has ended over 101 notes, read in three pages *)
C24_Witness ==
    /\ LoopEnded
    /\ Cardinality(OldIds) = 2 * batchSize + 1
    /\ PagesRead = 3
    /\ notesCount(stores, rot.newVaultId) = 2 * batchSize + 1

-----------------------------------------------------------------------------
(* C25: a changeVaultPassword run moves through Verifying, Provisioning,
   Migrating, Verifying-New and Committing in that order: every step stays in
   its phase, enters the next one, or leaves for the catch block, from which
   the run ends RolledBack; Committed is entered from Committing only, so a
   run that returns has passed every phase; no step of anything else moves a
   run (there is no cancellation); the step that does Verifying writes to no
   store; the caller receives the new identifier from a Committed run and an
   error from a RolledBack one; and every run that has started ends. *)
PhaseOf(pc) ==
    CASE pc = "idle" -> 0
      [] pc = "phase2" -> 1
      [] pc \in {"load", "copy"} -> 2
      [] pc \in {"folders", "verifyIds", "reopen", "sample"} -> 3
      [] pc = "commit" -> 4
      [] pc = "returned" -> 5
      [] pc \in {"catch", "thrown"} -> 6

Committed == rot.pc = "returned"

Thrown == rot.pc = "thrown"

C25_Step ==
    /\ rot.pc \notin {"idle", "catch", "returned", "thrown"} =>
          \/ PhaseOf(rot'.pc) = PhaseOf(rot.pc)
          \/ PhaseOf(rot'.pc) = PhaseOf(rot.pc) + 1
          \/ rot'.pc = "catch"
    /\ rot.pc = "idle" =>
          /\ rot'.pc \in {"idle", "phase2", "catch"}
          /\ rot'.pc # "idle" => stores' = stores
    /\ rot.pc = "catch" => rot'.pc \in {"catch", "thrown"}
    /\ RotationEnded =>
          \/ [rot' EXCEPT !.added = rot.added] = rot
          \/ /\ rot'.pc = "idle"
             /\ last'.op = "changeVaultPassword"
             /\ last'.ok = Committed
             /\ Committed => last'.vaultId = rot.newVaultId /\ last'.err = ""
             /\ Thrown => last'.err = rot.error /\ last'.err # ""
    /\ rot'.pc = rot.pc =>
          [rot' EXCEPT !.added = rot.added] = rot \/ rot.pc \in {"load", "copy"}

C25_Ends == ~RotationOver ~> RotationEnded

C25_PhaseOrder == [][C25_Step]_vars /\ C25_Ends

(* A run over two notes that returned after every check *)
C25_Witness == Committed /\ rot.checked = AllChecks /\ rot.total = 2

-----------------------------------------------------------------------------
(* C26: the Data Key generated in Provision is new: it differs from the old
   store's key and occurs in no store before the step; while the run lasts,
   the new store's key record wraps that key and every note of the new store
   is encrypted under it alone; when no run is under way, the notes and the
   key record of each store refer to one Data Key; and the two keys of a run
   are not both found in the stores once the run has committed (the old one
   is gone) or has been rolled back (the new one is gone). *)
WrappedKeyOf(st, v) ==
    importKey(retrieveEncryptedDataKey(st, v).encryptedKey.pt).val

NoteKeysOf(st, v) ==
    {notesOf(st, v)[id].metaCipher.key : id \in DOMAIN notesOf(st, v)}
        \cup {notesOf(st, v)[id].contentCipher.key : id \in DOMAIN notesOf(st, v)}

KeysIn(st) ==
    UNION {NoteKeysOf(st, v) \cup
             (IF IsNull(retrieveEncryptedDataKey(st, v)) THEN {}
              ELSE {WrappedKeyOf(st, v)}) :
           v \in {w \in VaultIds : Exists(st, w)}}

OneDataKey(st, v) ==
    Exists(st, v) /\ ~IsNull(retrieveEncryptedDataKey(st, v)) =>
        NoteKeysOf(st, v) \subseteq {WrappedKeyOf(st, v)}

AllOneKey(st) == \A v \in VaultIds : OneDataKey(st, v)

Provisioned == ~RotationOver /\ ~IsNull(rot.newDataKey)

C26_Fresh ==
    /\ rot.pc = "phase2" /\ ~IsNull(rot'.newDataKey) =>
          /\ rot'.newDataKey # rot.oldDataKey
          /\ rot'.newDataKey \notin KeysIn(stores)
          /\ rot'.newDataKey # dataKey
    /\ Provisioned => rot'.newDataKey = rot.newDataKey \/ rot'.pc = "idle"

C26_NewStore ==
    Provisioned /\ Exists(stores, rot.newVaultId) =>
        /\ WrappedKeyOf(stores, rot.newVaultId) = rot.newDataKey
        /\ NoteKeysOf(stores, rot.newVaultId) \subseteq {rot.newDataKey}

C26_OneKeyAtRest == RotationOver => AllOneKey(stores)

C26_Apart ==
    /\ Committed => rot.oldDataKey \notin KeysIn(stores)
    /\ Thrown /\ ~IsNull(rot.newDataKey) => rot.newDataKey \notin KeysIn(stores)

C26_OneDataKeyPerVault ==
    /\ [][C26_Fresh]_vars
    /\ [](C26_NewStore /\ C26_OneKeyAtRest /\ C26_Apart)

-----------------------------------------------------------------------------
(* C27: a registration whose create ceremony carries the PRF output uses it;
   one that only reports PRF enabled takes the output of the follow-up
   assertion at the same salt; in both cases exactly one record is appended
   to the stored list, it unwraps to the session's Data Key under the key
   derived from the PRF at the vault's salt, and the records that were there
   stay as they were; in every other case (a ceremony cancelled, no output on
   either path) registerPasskey throws and no store changes. *)
Yields == {"direct", "enabledOutput"}

Appended(before, after, v, c) ==
    /\ Len(after) = Len(before) + 1
    /\ SubSeq(after, 1, Len(before)) = before
    /\ after[Len(after)].id = c
    /\ AesGcmDecrypt(derivePRFKey(prfEval(c, prfSalt(v))),
                     after[Len(after)].dataKeyIv,
                     after[Len(after)].encryptedDataKey)
         = Ok(exportKey(getKey))

C27_Step ==
    \A v \in VaultIds, name \in CredentialNames, ceremony \in Ceremonies :
        RegisterPasskey(v, name, ceremony) =>
            /\ last'.op = "registerPasskey"
            /\ last'.ok = (ceremony \in Yields)
            /\ ceremony \in Yields =>
                  /\ Appended(getVaultCredentials(stores, v),
                              getVaultCredentials(stores', v), v,
                              authenticator + 1)
                  /\ stores' = storeVaultCredentials(stores, v,
                                   getVaultCredentials(stores', v))
            /\ ceremony \notin Yields =>
                  /\ last'.err # ""
                  /\ stores' = stores
            /\ ceremony = "enabledCancelled" =>
                  last'.err = "Authentication for PRF was cancelled"

C27_RegistrationAllOrNothing == [][C27_Step]_vars

(* A second passkey has just been registered: the list holds two records *)
C27_Witness ==
    /\ last.op = "registerPasskey" /\ last.ok
    /\ Len(getVaultCredentials(stores, last.vaultId)) = 2
    /\ authenticator = 2

-----------------------------------------------------------------------------
(* C28: removePasskey(vaultId, id) leaves in the stored list exactly the
   records of the previous list whose id differs from id, in their previous
   order and with every field as it was, and changes nothing else in any
   store; when no record has that id the list is unchanged; after a removal
   no record has the removed id, so that removing it again is such a case. *)
Kept(before, id) == {i \in DOMAIN before : before[i].id # id}

Filtered(before, after, id) ==
    /\ Len(after) = Cardinality(Kept(before, id))
    /\ \A i \in DOMAIN after :
          after[i] = before[CHOOSE k \in Kept(before, id) :
                               Cardinality({j \in Kept(before, id) : j < k})
                                   = i - 1]

C28_Step ==
    \A v \in VaultIds, id \in 1..(MaxPasskeys + 2) :
        RemovePasskey(v, id) =>
            /\ Filtered(getVaultCredentials(stores, v),
                        getVaultCredentials(stores', v), id)
            /\ Kept(getVaultCredentials(stores, v), id)
                 = DOMAIN getVaultCredentials(stores, v) =>
                   getVaultCredentials(stores', v) = getVaultCredentials(stores, v)
            /\ \A i \in DOMAIN getVaultCredentials(stores', v) :
                  getVaultCredentials(stores', v)[i].id # id
            /\ stores' = storeVaultCredentials(stores, v,
                             getVaultCredentials(stores', v))

C28_RemovalIsAFilter == [][C28_Step]_vars

(* The second of three passkeys has just been removed: the first, which was
   used for an unlock, and the third remain, in that order *)
C28_Witness ==
    /\ last.op = "removePasskey"
    /\ authenticator = (MaxPasskeys + 1)
    /\ Len(getVaultCredentials(stores, last.vaultId)) = 2
    /\ getVaultCredentials(stores, last.vaultId)[1].id = 1
    /\ getVaultCredentials(stores, last.vaultId)[1].lastUsedAt
         # getVaultCredentials(stores, last.vaultId)[1].createdAt
    /\ getVaultCredentials(stores, last.vaultId)[2].id = 3

-----------------------------------------------------------------------------
(* C29: the create ceremony of a registration, its follow-up assertion and
   the unlock ceremony evaluate the PRF at one and the same salt, the bytes
   of the vault identifier; two different identifiers give different salts;
   and no PRF key obtained for another vault identifier, whatever the
   credential, unwraps a credential record stored in a vault. *)
SameInput(v, c) ==
    /\ registrationPrf(v, c, "direct") = prfEval(c, prfSalt(v))
    /\ registrationPrf(v, c, "enabledOutput") = prfEval(c, prfSalt(v))
    /\ prfResult(c, v) = prfEval(c, prfSalt(v))

UnwrapsUnder(record, c, w) ==
    AesGcmDecrypt(derivePRFKey(prfResult(c, w)), record.dataKeyIv,
                  record.encryptedDataKey).ok

C29_DomainSeparation ==
    /\ \A v \in VaultIds, c \in 1..MaxPasskeys : SameInput(v, c)
    /\ \A v, w \in VaultIds : v # w => prfSalt(v) # prfSalt(w)
    /\ \A v \in VaultIds :
          Exists(stores, v) =>
              \A i \in DOMAIN getVaultCredentials(stores, v) :
                  /\ UnwrapsUnder(getVaultCredentials(stores, v)[i],
                                  getVaultCredentials(stores, v)[i].id, v)
                  /\ \A w \in VaultIds \ {v}, c \in 1..MaxPasskeys :
                        ~UnwrapsUnder(getVaultCredentials(stores, v)[i], c, w)

(* Two stores with different identifiers each hold a credential record *)
C29_Witness ==
    \E v, w \in VaultIds :
        /\ v # w
        /\ Exists(stores, v) /\ Exists(stores, w)
        /\ Len(getVaultCredentials(stores, v)) > 0
        /\ Len(getVaultCredentials(stores, w)) > 0

-----------------------------------------------------------------------------
(* C30: at most one loadAllNotes execution is in flight at any time, and an
   execution begins only in a step before which none was in flight and every
   load requested earlier had completed: a load queued while another runs
   waits for it to complete. *)
InFlight(chain) == {i \in DOMAIN chain : chain[i] = "running"}

C30_OneInFlight == Cardinality(InFlight(loads)) <= 1

C30_StartsAfterCompletion ==
    InFlight(loads') \ InFlight(loads) # {} =>
        /\ InFlight(loads) = {}
        /\ \A i \in InFlight(loads') : \A j \in 1..(i - 1) :
              loads[j] \in {"fulfilled", "rejected"}

C30_LoadsSerialized ==
    []C30_OneInFlight /\ [][C30_StartsAfterCompletion]_vars

(* A load is in flight, the one before it has completed, and another one,
   requested meanwhile, waits behind it *)
C30_Witness ==
    /\ Len(loads) = 3
    /\ loads[1] = "fulfilled"
    /\ loads[2] = "running"
    /\ loads[3] = "waiting"

-----------------------------------------------------------------------------
(* C31: while a check timer is scheduled for a timeout above zero and the
   timeout has gone by without a resetActivity, the next periodic check
   locks the vault: lockVault returns with everything locked, and after the
   check no session key is held, activeVault and activeDatabase are null and
   no timer is scheduled; a check that is not due changes none of these.
   Such a check comes, unless activity is reset or the vault is locked
   first.  At most one timer is ever scheduled and checkInterval holds it.
   startMonitoring with a timeout of zero or less leaves no timer, a timer
   is only ever scheduled with a timeout above zero, and the inactivity
   lock only runs under such a timeout. *)
Due ==
    /\ timers > 0
    /\ inactivityState.isMonitoring
    /\ inactivityState.timeoutMinutes > 0
    /\ inactive

Locked ==
    /\ ~hasKey /\ ~keyAvailable
    /\ IsNull(vaultState.activeVault)
    /\ IsNull(vaultState.activeDatabase)
    /\ timers = 0 /\ ~checkInterval

C31_Check ==
    CheckTick =>
        IF Due
        THEN Locked' /\ lockSnap' = AllLocked
                     /\ last'.op = "handleInactivityLock"
        ELSE UNCHANGED <<sessionVars, vaultState, timers, checkInterval>>

C31_OneTimer ==
    /\ timers <= 1
    /\ checkInterval <=> timers = 1
    /\ timers > 0 => inactivityState.timeoutMinutes > 0

C31_Disabled ==
    /\ (SettingsLoaded
          /\ getVaultSettings(stores, loading.db, loading.key) <= 0)
          => timers' = 0 /\ ~checkInterval'
    /\ last'.op = "handleInactivityLock" /\ last' # last
          => inactivityState.timeoutMinutes > 0 /\ inactive

C31_Comes == Due ~> (Locked \/ ~inactive)

C31_AutoLock ==
    /\ [][C31_Check]_vars
    /\ []C31_OneTimer
    /\ [][C31_Disabled]_vars
    /\ C31_Comes

(* The periodic check has locked an open vault monitored with a timeout of
   five minutes *)
C31_Witness ==
    /\ last.op = "handleInactivityLock"
    /\ ~IsNull(last.keyBefore)
    /\ ~IsNull(last.vaultId)
    /\ Locked
    /\ inactivityState.timeoutMinutes = 5

-----------------------------------------------------------------------------
(* C39: in every reachable state the isMonitoring flag of the inactivity
   store is true exactly when a periodic check timer is scheduled. *)
C39_FlagMatchesTimer == inactivityState.isMonitoring <=> timers > 0

-----------------------------------------------------------------------------
(* C32: when changeVaultPassword has thrown, at whatever step, the Session
   Key Manager holds the key it held when the call was made (no other caller
   touches the session while a run lasts). *)
C32_SessionUntouched == Thrown => dataKey = rot.keyBefore

-----------------------------------------------------------------------------
(* C33: when unlockWithPasskey has thrown, for whatever reason, the Session
   Key Manager holds the key it held when the call was made. *)
C33_FailedUnlockKeepsSession ==
    (last.op = "unlockWithPasskey" /\ ~last.ok) => dataKey = last.keyBefore

-----------------------------------------------------------------------------
(* C37: whenever the vault is locked (the notes store has no active
   database and no session key is held) the list store notesWithMetadata is
   empty, whatever load was in flight when the lock came. *)
C37_NoNotesAfterLock ==
    (IsNull(activeDb) /\ ~hasKey) => notesWithMetadata = {}

-----------------------------------------------------------------------------
(* C38: every load queued behind another is eventually followed by an
   execution of loadAllNotes of its own: its entry of the chain leaves
   "waiting" for "running", or for "fulfilled" when the execution found no
   database or no key; this also when an earlier load of the chain
   rejected. *)
C38_QueuedLoadsRun ==
    \A i \in 1..MaxLoads :
        (Len(loads) >= i /\ loads[i] = "waiting")
            ~> (Len(loads) >= i /\ loads[i] \in {"running", "fulfilled"})

-----------------------------------------------------------------------------
(* C34: when calls of registerPasskey, unlockWithPasskey and removePasskey on
   one vault overlap, no put of the credential list loses what another call
   has stored since the list was read: the put brings back no credential
   that is absent from the stored list (the stored list gains at most the
   credential registered by this call), drops no credential of the stored
   list (but the one this call removes), and takes back no lastUsedAt. *)
Ids(credentials) == {credentials[k].id : k \in DOMAIN credentials}

LastUsed(credentials, id) ==
    credentials[CHOOSE k \in DOMAIN credentials :
                    credentials[k].id = id].lastUsedAt

C34_Step ==
    \A i \in DOMAIN credOps, ceremony \in {"direct", "cancelled"} :
        CredentialsStored(i, ceremony) =>
            LET o == credOps[i]
                before == getVaultCredentials(stores, o.vaultId)
                after == getVaultCredentials(stores', o.vaultId)
            IN /\ Ids(after) \ Ids(before) \subseteq
                     IF o.op = "registerPasskey" THEN {authenticator'}
                     ELSE {}
               /\ Ids(before) \ Ids(after) \subseteq
                     IF o.op = "removePasskey" THEN {o.credentialId}
                     ELSE {}
               /\ \A id \in Ids(before) \cap Ids(after) :
                     LastUsed(after, id) >= LastUsed(before, id)

C34_NoLostUpdate == [][C34_Step]_vars

-----------------------------------------------------------------------------
(* C35: every record of a vault's credential list, unwrapped under the PRF
   key of its credential for that vault, yields the Data Key that the
   vault's password-wrapped record holds.  No store has a credential at the
   start, and no step takes this away: not a registerPasskey called with the
   vault's own key, not an unlock, not a removePasskey, and no step of
   changeVaultPassword. *)
CredentialsSound(st) ==
    \A v \in VaultIds :
        Exists(st, v) =>
            \A k \in DOMAIN getVaultCredentials(st, v) :
                /\ ~IsNull(retrieveEncryptedDataKey(st, v))
                /\ Unwrapped(getVaultCredentials(st, v)[k], v).ok
                /\ importKey(Unwrapped(getVaultCredentials(st, v)[k],
                                       v).val)
                      = Ok(WrappedKeyOf(st, v))

OwnKeyPassed ==
    last'.op = "registerPasskey" =>
        getKey = WrappedKeyOf(stores, last'.vaultId)

C35_Step ==
    (CredentialsSound(stores) /\ OwnKeyPassed) => CredentialsSound(stores')

C35_CredentialsUnlockVaultKey ==
    /\ CredentialsSound(stores)
    /\ [][C35_Step]_vars

(* A changeVaultPassword has thrown and rolled back on a vault that keeps
   one passkey registered with its key, of the two credentials that the
   authenticator has made *)
C35_Witness ==
    /\ Thrown
    /\ ~IsNull(rot.newVaultId)
    /\ authenticator = 2
    /\ Len(getVaultCredentials(stores, rot.vaultId)) = 1
    /\ CredentialsSound(stores)

-----------------------------------------------------------------------------
(* C36: a note that another writer adds to the old store after the run has
   taken its count and before it compares the identifiers is never left out
   by a commit: while the run is between the two, an old store with more
   notes than were counted makes the comparison step end in the catch block
   (a run passes the comparison only with every identifier of the old store
   in the new one), such a run does end by throwing, and until a run commits
   no step takes a note or the store itself away from the old vault. *)
InWindow == rot.pc \in {"load", "copy", "folders", "verifyIds"}

AddedInWindow ==
    InWindow /\ notesCount(stores, rot.vaultId) > rot.total

C36_Detected ==
    (rot.pc = "verifyIds" /\ rot'.pc # "verifyIds") =>
        IF notesCount(stores, rot.vaultId) > rot.total
        THEN rot'.pc = "catch"
        ELSE rot'.pc = "reopen" =>
                DOMAIN notesOf(stores, rot.vaultId)
                    \subseteq DOMAIN notesOf(stores, rot.newVaultId)

C36_Kept ==
    (~RotationOver /\ rot.pc # "returned" /\ rot'.pc # "returned"
       /\ Exists(stores, rot.vaultId)) =>
        /\ Exists(stores', rot.vaultId)
        /\ DOMAIN notesOf(stores, rot.vaultId)
              \subseteq DOMAIN notesOf(stores', rot.vaultId)

C36_Aborts == AddedInWindow ~> Thrown

C36_AdditionsDetected ==
    /\ [][C36_Detected]_vars
    /\ [][C36_Kept]_vars
    /\ C36_Aborts

(* A run has thrown for the identifier of a note that was added to the old
   store while its one counted note was being copied; the old store has
   both notes *)
C36_Witness ==
    /\ Thrown
    /\ rot.total = 1
    /\ rot.error = missingIdsError({2})
    /\ DOMAIN notesOf(stores, rot.vaultId) = {1, 2}

====
